---- MODULE Spec2Model ----
(***************************************************************************)
(* A model of curd's tracking layer (internal/tracking.go) and of the      *)
(* MyAnimeList adapter it drives (internal/myanimelist.go).                *)
(*                                                                         *)
(* Go strings whose characters matter (service names, user input) are      *)
(* sequences of one-character strings; opaque strings (tokens, canonical   *)
(* statuses, fixed message fragments) are TLA+ strings.  An error message  *)
(* is the sequence of the fragments fmt.Sprintf / fmt.Errorf put together; *)
(* a Go `error` is a record [nil, msg].                                    *)
(***************************************************************************)
EXTENDS Integers, Sequences, FiniteSets, TLC

VARIABLES
    config,        \* *CurdConfig handed to the tracking functions
    globalConfig,  \* what GetGlobalConfig() returns: nil, or a config
    pc,            \* position of the running *Dual function
    op,            \* which *Dual function runs: Progress, Status, Rating
    args,          \* its arguments
    errors,        \* its local `errors []string`
    result,        \* its return value
    calls,         \* adapter invocations so far, in order, with their outcome
    out,           \* lines written with CurdOut, in order
    malStore,      \* MyAnimeList's my_list_status per anime id
    anilistStore,  \* AniList's list entry per anime id
    selConfig,     \* Selector: the *CurdConfig GetTrackingService is given
    selResult,     \* Selector: what GetTrackingService returned
    selConfigAfter,\* Selector: that config after the call
    cvArgs,        \* Convert: id, fromService, toService
    cvResult,      \* Convert: returned (id, err)
    cvLookups,     \* Convert: network lookups performed
    fd,            \* Lookup: FindAnimeByIDUnified's arguments and result
    lc,            \* List: convertMALToAnilistFormat's argument and result
    su,            \* Status: UpdateMALAnimeStatus's arguments and effects
    rt,            \* Rating: RateAnimeMAL's inputs and effects
    pg,            \* Pages: position and data of GetMALUserAnimeList
    sr,            \* Search: SearchAnimeMAL's inputs and result
    th,            \* Threads: two *Dual invocations running concurrently
    un,            \* Unified: UpdateAnimeProgressUnified's arguments and effects
    sq,            \* Sequence: UpdateMALAnimeStatus calls on one anime
    oa,            \* OAuth: authenticateWithBrowserMAL and its goroutines
    dl,            \* Selection: downloadEpisodeSelection's loop
    df             \* File: DownloadEpisode and the destination path

dualVars == <<config, globalConfig, pc, op, args, errors, result, calls, out,
              malStore, anilistStore>>
selVars  == <<selConfig, selResult, selConfigAfter>>
cvVars   == <<cvArgs, cvResult, cvLookups>>
moreVars == <<sr, th, un, sq, oa, dl, df>>
firstVars == <<dualVars, selVars, cvVars, fd, lc, su, rt, pg>>
auxVars  == <<fd, lc, su, rt, pg, moreVars>>
vars     == <<dualVars, selVars, cvVars, auxVars>>

----------------------------------------------------------------------------
(* Bounds of the model *)

MaxID       == 1   \* media ids range over -1 .. MaxID
MaxProgress == 1   \* episode counts range over 0 .. MaxProgress
MaxNameLen  == 3   \* Selector: every name of at most this many letters

IDs        == -1 .. MaxID
Progresses == 0 .. MaxProgress

----------------------------------------------------------------------------
(* Strings as character sequences *)

sMal         == <<"m", "a", "l">>
sMAL         == <<"M", "A", "L">>
sMyanimelist == <<"m", "y", "a", "n", "i", "m", "e", "l", "i", "s", "t">>
sMyAnimeList == <<"M", "y", "A", "n", "i", "m", "e", "L", "i", "s", "t">>
sAnilist     == <<"a", "n", "i", "l", "i", "s", "t">>
sAniList     == <<"A", "n", "i", "L", "i", "s", "t">>
sKitsu       == <<"k", "i", "t", "s", "u">>
sEmpty       == <<>>

\* unicode.ToLower on the letters the model uses; every other character
\* (lower-case letters, digits, signs) maps to itself.
LowerChar(c) ==
    CASE c = "A" -> "a"
      [] c = "L" -> "l"
      [] c = "M" -> "m"
      [] c = "Y" -> "y"
      [] c = "N" -> "n"
      [] c = "I" -> "i"
      [] c = "E" -> "e"
      [] c = "S" -> "s"
      [] c = "T" -> "t"
      [] OTHER   -> c

\* strings.ToLower
ToLower(s) == [i \in 1 .. Len(s) |-> LowerChar(s[i])]

----------------------------------------------------------------------------
(* Service Selector *)

GetTrackingServiceNoLower(cfg) ==
    IF cfg.TrackingService = sMal \/ cfg.TrackingService = sMyanimelist
    THEN "mal" ELSE "anilist"

\* GetTrackingService: the primary backend, "mal" or "anilist"
GetTrackingService(cfg) ==
    LET service == ToLower(cfg.TrackingService)
    IN  IF service = sMal \/ service = sMyanimelist THEN "mal" ELSE "anilist"

----------------------------------------------------------------------------
(* Go errors, and the text of a number typed by the user *)

Nil      == [nil |-> TRUE,  msg |-> <<>>]
Err(m)   == [nil |-> FALSE, msg |-> m]

Digits == {"0", "1", "2", "3", "4", "5", "6", "7", "8", "9"}

DigitVal(c) ==
    CASE c = "0" -> 0 [] c = "1" -> 1 [] c = "2" -> 2 [] c = "3" -> 3
      [] c = "4" -> 4 [] c = "5" -> 5 [] c = "6" -> 6 [] c = "7" -> 7
      [] c = "8" -> 8 [] c = "9" -> 9

RECURSIVE DigitsVal(_)
DigitsVal(s) ==
    IF s = <<>> THEN 0
    ELSE 10 * DigitsVal(SubSeq(s, 1, Len(s) - 1)) + DigitVal(s[Len(s)])

AllDigits(s) == Len(s) > 0 /\ \A i \in 1 .. Len(s) : s[i] \in Digits

\* strconv.Atoi succeeds on an optional sign followed by one or more digits
AtoiOk(s) ==
    IF Len(s) > 0 /\ s[1] \in {"+", "-"} THEN AllDigits(Tail(s)) ELSE AllDigits(s)

\* strconv.Atoi's value where it succeeds
Atoi(s) ==
    IF s[1] = "-" THEN 0 - DigitsVal(Tail(s))
    ELSE IF s[1] = "+" THEN DigitsVal(Tail(s))
    ELSE DigitsVal(s)

\* fmt.Scanln(&score) with the error dropped: the integer the line starts
\* with is stored; when the line starts with no integer, score keeps 0.
ScanlnInt(s) ==
    LET P == {n \in 1 .. Len(s) : AtoiOk(SubSeq(s, 1, n))}
    IN  IF P = {} THEN 0
        ELSE Atoi(SubSeq(s, 1, CHOOSE n \in P : \A m \in P : m <= n))

RECURSIVE NatText(_)
NatText(n) ==
    LET d == CHOOSE c \in Digits : DigitVal(c) = n % 10
    IN  IF n < 10 THEN <<d>> ELSE NatText(n \div 10) \o <<d>>

\* strconv.Itoa, and fmt's %d
Itoa(n) == IF n < 0 THEN <<"-">> \o NatText(0 - n) ELSE NatText(n)

\* What the user may type when asked for a score
RateTexts == { <<"7">>, <<"1", "0">>, <<"1", "1">>, <<"-", "1">>,
               <<"a", "b", "c">>, <<>> }

\* What the input source may hand back: a line, or (Rofi) an error
RateInputs ==
    [fails : {FALSE}, text : RateTexts] \cup [fails : {TRUE}, text : {<<>>}]

----------------------------------------------------------------------------
(* The two backends as the adapters see them *)

\* client.Do fails ("net"), the server answers non-200 ("http") or 200 ("ok")
NetOutcomes == {"ok", "http", "net"}

CanonicalStatuses ==
    {"CURRENT", "COMPLETED", "PAUSED", "DROPPED", "PLANNING", "REPEATING"}

BlankEntry ==
    [episodes |-> 0, status |-> "", rewatching |-> FALSE, score |-> 0,
     finish |-> ""]

\* PATCH .../my_list_status: the fields of the form overwrite the entry,
\* the fields that are not sent stay as they are
ApplyPatch(e, f) ==
    [episodes   |-> IF "num_watched_episodes" \in DOMAIN f
                    THEN Atoi(f["num_watched_episodes"]) ELSE e.episodes,
     status     |-> IF "status" \in DOMAIN f THEN f["status"] ELSE e.status,
     rewatching |-> IF "is_rewatching" \in DOMAIN f
                    THEN f["is_rewatching"] = "true" ELSE e.rewatching,
     score      |-> IF "score" \in DOMAIN f THEN Atoi(f["score"]) ELSE e.score,
     finish     |-> IF "finish_date" \in DOMAIN f
                    THEN f["finish_date"] ELSE e.finish]

\* The server answers 200 only to a bearer of a token, for an anime it knows
Accepts(store, token, id) == token # "" /\ id \in DOMAIN store

\* One request: the error fmt.Errorf builds for its outcome
NetErr(net, what) ==
    IF net = "net" THEN Err(<<"failed to make request: ", "transport">>)
    ELSE Err(<<what, ". Status Code: ", "non-200">>)

\* What an adapter call did: its return value, the CurdOut lines it wrote,
\* whether it sent a request and the form it sent
Outcome(err, lines, requested, fields) ==
    [err |-> err, lines |-> lines, requested |-> requested, fields |-> fields]

NoFields == [x \in {} |-> ""]

Line(src, text) == [src |-> src, text |-> text]

----------------------------------------------------------------------------
(* MyAnimeList adapter *)

UpdateMALAnimeProgressOneMore(token, mediaID, progress, net) ==
    LET data == [x \in {"num_watched_episodes"} |-> Itoa(progress + 1)]
    IN  IF net # "ok"
        THEN Outcome(NetErr(net, "failed to update progress"), <<>>, TRUE, data)
        ELSE Outcome(Nil, <<>>, TRUE, data)

\* UpdateMALAnimeProgress
UpdateMALAnimeProgress(token, mediaID, progress, net) ==
    LET data == [x \in {"num_watched_episodes"} |-> Itoa(progress)]
    IN  IF net # "ok"
        THEN Outcome(NetErr(net, "failed to update progress"), <<>>, TRUE, data)
        ELSE Outcome(Nil,
                     <<Line("MAL", <<"MyAnimeList progress updated! Latest watched episode: ",
                                     ToString(progress)>>)>>,
                     TRUE, data)

\* the switch of UpdateMALAnimeStatus: canonical status to MAL's status
MALStatusOf(status) ==
    CASE status = "CURRENT"   -> "watching"
      [] status = "COMPLETED" -> "completed"
      [] status = "PAUSED"    -> "on_hold"
      [] status = "DROPPED"   -> "dropped"
      [] status = "PLANNING"  -> "plan_to_watch"
      [] status = "REPEATING" -> "watching"
      [] OTHER                -> ""

\* statusMap of UpdateMALAnimeStatus; a missing key reads as ""
MALStatusName(status) ==
    CASE status = "CURRENT"   -> "Currently Watching"
      [] status = "COMPLETED" -> "Completed"
      [] status = "PAUSED"    -> "On Hold"
      [] status = "DROPPED"   -> "Dropped"
      [] status = "PLANNING"  -> "Plan to Watch"
      [] status = "REPEATING" -> "Rewatching"
      [] OTHER                -> ""

MALStatusFormAlwaysFinished(status, today) ==
    [x \in {"status", "finish_date"}
              \cup (IF status = "REPEATING" THEN {"is_rewatching"} ELSE {})
     |-> CASE x = "status"        -> MALStatusOf(status)
           [] x = "finish_date"   -> today
           [] x = "is_rewatching" -> "true"]

\* the form UpdateMALAnimeStatus sends
MALStatusForm(status, today) ==
    [x \in {"status"} \cup (IF status = "COMPLETED" THEN {"finish_date"} ELSE {})
                      \cup (IF status = "REPEATING" THEN {"is_rewatching"} ELSE {})
     |-> CASE x = "status"        -> MALStatusOf(status)
           [] x = "finish_date"   -> today
           [] x = "is_rewatching" -> "true"]

\* UpdateMALAnimeStatus, called when time.Now() formats as today
UpdateMALAnimeStatusAt(token, mediaID, status, today, net) ==
    LET data == MALStatusForm(status, today)
    IN  IF net # "ok"
        THEN Outcome(NetErr(net, "failed to update status"), <<>>, TRUE, data)
        ELSE Outcome(Nil,
                     <<Line("MAL", <<"MyAnimeList status updated to: ",
                                     MALStatusName(status)>>)>>,
                     TRUE, data)

\* UpdateMALAnimeStatus
UpdateMALAnimeStatus(token, mediaID, status, net) ==
    UpdateMALAnimeStatusAt(token, mediaID, status, "today", net)

RateAnimeMALUpperBoundOnly(token, mediaID, gcfg, input, net) ==
    IF gcfg.isNil
    THEN Outcome(Err(<<"failed to get curd config">>), <<>>, FALSE, NoFields)
    ELSE IF gcfg.RofiSelection /\ input.fails
    THEN Outcome(Err(<<"rofi: ", "failed">>), <<>>, FALSE, NoFields)
    ELSE IF gcfg.RofiSelection /\ ~AtoiOk(input.text)
    THEN Outcome(Err(<<"strconv.Atoi: parsing ">> \o input.text \o <<": invalid syntax">>),
                 <<>>, FALSE, NoFields)
    ELSE
      LET score == IF gcfg.RofiSelection THEN Atoi(input.text)
                   ELSE ScanlnInt(input.text)
          data  == [x \in {"score"} |-> Itoa(score)]
      IN  IF score > 10
          THEN Outcome(Err(<<"score must be between 0 and 10">>), <<>>, FALSE, NoFields)
          ELSE IF net # "ok"
          THEN Outcome(NetErr(net, "failed to rate anime"), <<>>, TRUE, data)
          ELSE Outcome(Nil, <<>>, TRUE, data)

\* RateAnimeMAL; input.text is what the user typed, input.fails says that
\* GetUserInputFromRofi returned an error
RateAnimeMAL(token, mediaID, gcfg, input, net) ==
    IF gcfg.isNil
    THEN Outcome(Err(<<"failed to get curd config">>), <<>>, FALSE, NoFields)
    ELSE IF gcfg.RofiSelection /\ input.fails
    THEN Outcome(Err(<<"rofi: ", "failed">>), <<>>, FALSE, NoFields)
    ELSE IF gcfg.RofiSelection /\ ~AtoiOk(input.text)
    THEN Outcome(Err(<<"strconv.Atoi: parsing ">> \o input.text \o <<": invalid syntax">>),
                 <<>>, FALSE, NoFields)
    ELSE
      LET score == IF gcfg.RofiSelection THEN Atoi(input.text)
                   ELSE ScanlnInt(input.text)
          data  == [x \in {"score"} |-> Itoa(score)]
      IN  IF score < 0 \/ score > 10
          THEN Outcome(Err(<<"score must be between 0 and 10">>), <<>>, FALSE, NoFields)
          ELSE IF net # "ok"
          THEN Outcome(NetErr(net, "failed to rate anime"), <<>>, TRUE, data)
          ELSE Outcome(Nil,
                       <<Line("MAL", <<"Successfully rated anime (mediaId: ",
                                       ToString(mediaID), ") with score: ",
                                       ToString(score)>>)>>,
                       TRUE, data)

----------------------------------------------------------------------------
(* AniList adapter: anilist.go, the adapter contract of the specification *)

\* SaveMediaListEntry: the variables sent overwrite the entry
ApplySave(e, f) ==
    [episodes   |-> IF "progress" \in DOMAIN f THEN f["progress"] ELSE e.episodes,
     status     |-> IF "status" \in DOMAIN f THEN f["status"] ELSE e.status,
     rewatching |-> e.rewatching,
     score      |-> IF "score" \in DOMAIN f THEN f["score"] ELSE e.score,
     finish     |-> e.finish]

\* UpdateAnimeProgress: sets the absolute watched-episode count
UpdateAnimeProgress(token, mediaID, progress, net) ==
    LET data == [x \in {"progress"} |-> progress]
    IN  IF net # "ok"
        THEN Outcome(NetErr(net, "failed to update progress"), <<>>, TRUE, data)
        ELSE Outcome(Nil,
                     <<Line("AniList", <<"Anime progress updated! Latest watched episode: ",
                                         ToString(progress)>>)>>,
                     TRUE, data)

\* UpdateAnimeStatus: sets the canonical status, and no completion date
UpdateAnimeStatus(token, mediaID, status, net) ==
    LET data == [x \in {"status"} |-> status]
    IN  IF net # "ok"
        THEN Outcome(NetErr(net, "failed to update status"), <<>>, TRUE, data)
        ELSE Outcome(Nil,
                     <<Line("AniList", <<"Anime status updated to: ", status>>)>>,
                     TRUE, data)

\* RateAnime: a score from the input source, validated to be in 0..10
RateAnime(token, mediaID, input, net) ==
    IF input.fails \/ ~AtoiOk(input.text)
    THEN Outcome(Err(<<"invalid score input">>), <<>>, FALSE, NoFields)
    ELSE
      LET score == Atoi(input.text)
          data  == [x \in {"score"} |-> score]
      IN  IF score < 0 \/ score > 10
          THEN Outcome(Err(<<"score must be between 0 and 10">>), <<>>, FALSE, NoFields)
          ELSE IF net # "ok"
          THEN Outcome(NetErr(net, "failed to rate anime"), <<>>, TRUE, data)
          ELSE Outcome(Nil,
                       <<Line("AniList", <<"Successfully rated anime (mediaId: ",
                                           ToString(mediaID), ") with score: ",
                                           ToString(score)>>)>>,
                       TRUE, data)

----------------------------------------------------------------------------
(* Dual-write coordinator: UpdateAnimeProgressDual, UpdateAnimeStatusDual, *)
(* RateAnimeDual.  The three functions have the same shape; op tells which *)
(* one runs.  Log writes to the debug log and is not modelled; CurdOut is. *)

Ops == {"Progress", "Status", "Rating"}

\* the adapter method each *Dual function calls on each backend
MethodOf(o, backend) ==
    CASE o = "Progress" /\ backend = "MAL"     -> "UpdateMALAnimeProgress"
      [] o = "Progress" /\ backend = "AniList" -> "UpdateAnimeProgress"
      [] o = "Status"   /\ backend = "MAL"     -> "UpdateMALAnimeStatus"
      [] o = "Status"   /\ backend = "AniList" -> "UpdateAnimeStatus"
      [] o = "Rating"   /\ backend = "MAL"     -> "RateAnimeMAL"
      [] o = "Rating"   /\ backend = "AniList" -> "RateAnime"

MALArgsSwapped(a) == [token |-> a.anilistToken, id |-> a.anilistID]

\* the token and id handed to the MAL adapter: (malToken, malID)
MALArgs(a) == [token |-> a.malToken, id |-> a.malID]

\* the token and id handed to the AniList adapter: (anilistToken, anilistID)
AniListArgs(a) == [token |-> a.anilistToken, id |-> a.anilistID]

MALEligibleTokenOnly(a) == a.malToken # ""

\* if malToken != "" && malID > 0
MALEligible(a) == a.malToken # "" /\ a.malID > 0

\* if anilistToken != "" && anilistID > 0
AniListEligible(a) == a.anilistToken # "" /\ a.anilistID > 0

\* the adapter call itself, in the environment env = [net, input]
RunAdapter(o, backend, a, gcfg, env) ==
    CASE o = "Progress" /\ backend = "MAL" ->
           UpdateMALAnimeProgress(MALArgs(a).token, MALArgs(a).id, a.progress, env.net)
      [] o = "Progress" /\ backend = "AniList" ->
           UpdateAnimeProgress(AniListArgs(a).token, AniListArgs(a).id, a.progress, env.net)
      [] o = "Status" /\ backend = "MAL" ->
           UpdateMALAnimeStatus(MALArgs(a).token, MALArgs(a).id, a.status, env.net)
      [] o = "Status" /\ backend = "AniList" ->
           UpdateAnimeStatus(AniListArgs(a).token, AniListArgs(a).id, a.status, env.net)
      [] o = "Rating" /\ backend = "MAL" ->
           RateAnimeMAL(MALArgs(a).token, MALArgs(a).id, gcfg, env.input, env.net)
      [] o = "Rating" /\ backend = "AniList" ->
           RateAnime(AniListArgs(a).token, AniListArgs(a).id, env.input, env.net)

ArgsOf(backend, a) == IF backend = "MAL" THEN MALArgs(a) ELSE AniListArgs(a)

\* the environments one adapter call may meet
Envs(o) ==
    [net : NetOutcomes,
     input : IF o = "Rating" THEN RateInputs ELSE {[fails |-> FALSE, text |-> <<>>]}]

\* strings.Join
RECURSIVE Join(_, _)
Join(ss, sep) ==
    IF ss = <<>> THEN <<>>
    ELSE IF Len(ss) = 1 THEN ss[1]
    ELSE ss[1] \o <<sep>> \o Join(Tail(ss), sep)

\* fmt.Sprintf("MAL: %v", err), fmt.Sprintf("AniList: %v", err)
ErrorsEntry(backend, err) == <<backend, ": ">> \o err.msg

AggregateResultOnlyBoth(errs) ==
    IF Len(errs) > 1 THEN Err(<<"dual tracking errors: ">> \o Join(errs, "; "))
    ELSE Nil

\* if len(errors) > 0 { return fmt.Errorf("dual tracking errors: %s", ...) }
AggregateResult(errs) ==
    IF Len(errs) > 0 THEN Err(<<"dual tracking errors: ">> \o Join(errs, "; "))
    ELSE Nil

\* CurdOut of the coordinator itself: only UpdateAnimeProgressDual has one
\* ("(check) " stands for the check mark the line starts with)
CoordLines(o, backend, a) ==
    IF o = "Progress"
    THEN <<Line(backend, <<"(check) ", backend, " updated: Episode ", ToString(a.progress)>>)>>
    ELSE <<>>

CallRec(o, backend, a) ==
    [backend |-> backend, method |-> MethodOf(o, backend),
     token |-> ArgsOf(backend, a).token, id |-> ArgsOf(backend, a).id,
     returned |-> FALSE, failed |-> FALSE, err |-> Nil,
     requested |-> FALSE, fields |-> NoFields]

\* the backend's state after the adapter call: a request answered 200 is applied
StoreAfter(store, backend, id, outc, env) ==
    IF outc.requested /\ env.net = "ok" /\ id \in DOMAIN store
    THEN [store EXCEPT ![id] = IF backend = "MAL" THEN ApplyPatch(@, outc.fields)
                                                 ELSE ApplySave(@, outc.fields)]
    ELSE store

\* the last call of the log, marked as returned with its result and with
\* the request it made
Returned(cs, outc) ==
    [cs EXCEPT ![Len(cs)] = [@ EXCEPT !.returned = TRUE,
                                      !.failed = ~outc.err.nil,
                                      !.err = outc.err,
                                      !.requested = outc.requested,
                                      !.fields = outc.fields]]

\* errors = append(errors, ...)
ErrorsPrepend(errs, e) == <<e>> \o errs

ErrorsAppend(errs, e) == Append(errs, e)

ErrorsAfterSkipAsFailure(errs, backend) ==
    Append(errs, <<backend, ": ", "not linked">>)

\* the else branch of an eligibility test: a Log line, errors untouched
ErrorsAfterSkip(errs, backend) == errs

AfterMALAbortOnFailure(failed) == IF failed THEN "agg" ELSE "anilist"

\* after the MAL block, whatever its outcome, comes the AniList block
AfterMAL(failed) == "anilist"

AfterInvokeAsync(backend) == IF backend = "MAL" THEN "anilist" ELSE "agg"

\* an adapter call is a plain, blocking function call
AfterInvoke(backend) == IF backend = "MAL" THEN "malWait" ELSE "anilistWait"

DualNames == {sEmpty, sMAL, sMyanimelist, sAniList}

Tokens(backend) == {"", IF backend = "MAL" THEN "mal-token" ELSE "anilist-token"}

ArgSets(o) ==
    [anilistToken : Tokens("AniList"), malToken : Tokens("MAL"),
     anilistID : IDs, malID : IDs,
     progress : IF o = "Progress" THEN Progresses ELSE {0},
     status : IF o = "Status" THEN CanonicalStatuses \cup {"BOGUS"} ELSE {""}]

NoArgs ==
    [anilistToken |-> "", malToken |-> "", anilistID |-> 0, malID |-> 0,
     progress |-> 0, status |-> ""]

GlobalConfigs ==
    {[isNil |-> TRUE, RofiSelection |-> FALSE]}
        \cup [isNil : {FALSE}, RofiSelection : BOOLEAN]

DualInit ==
    /\ config \in [TrackingService : DualNames, DualTracking : BOOLEAN]
    /\ globalConfig \in GlobalConfigs
    /\ pc = "idle"
    /\ op = "none"
    /\ args = NoArgs
    /\ errors = <<>>
    /\ result = Nil
    /\ calls = <<>>
    /\ out = <<>>
    /\ malStore = [i \in 1 .. MaxID |-> BlankEntry]
    /\ anilistStore = [i \in 1 .. MaxID |-> BlankEntry]

\* a caller enters one of the three *Dual functions
Call(o, a) ==
    /\ pc = "idle"
    /\ op' = o
    /\ args' = a
    /\ errors' = <<>>
    /\ pc' = IF ~config.DualTracking THEN "single" ELSE "mal"
    /\ UNCHANGED <<config, globalConfig, result, calls, out, malStore, anilistStore,
                   selVars, cvVars, auxVars>>

\* the adapter call of backend returns in environment env
AdapterReturns(backend, env, outc, nextpc, coordLines, aggregate) ==
    LET a    == ArgsOf(backend, args)
        st   == IF backend = "MAL" THEN malStore ELSE anilistStore
    IN  /\ env.net = "ok" => Accepts(st, a.token, a.id)
        /\ calls' = Returned(calls, outc)
        /\ out' = out \o outc.lines \o (IF outc.err.nil THEN coordLines ELSE <<>>)
        /\ malStore' = IF backend = "MAL"
                       THEN StoreAfter(malStore, "MAL", a.id, outc, env)
                       ELSE malStore
        /\ anilistStore' = IF backend = "AniList"
                           THEN StoreAfter(anilistStore, "AniList", a.id, outc, env)
                           ELSE anilistStore
        /\ IF aggregate
           THEN /\ errors' = IF outc.err.nil THEN errors
                             ELSE ErrorsAppend(errors, ErrorsEntry(backend, outc.err))
                /\ result' = result
           ELSE /\ errors' = errors
                /\ result' = outc.err
        /\ pc' = nextpc
        /\ UNCHANGED <<config, globalConfig, op, args, selVars, cvVars, auxVars>>

Primary == IF GetTrackingService(config) = "mal" THEN "MAL" ELSE "AniList"

\* if !config.DualTracking: the primary backend's adapter is called ...
SingleInvoke ==
    /\ pc = "single"
    /\ calls' = Append(calls, CallRec(op, Primary, args))
    /\ pc' = "singleWait"
    /\ UNCHANGED <<config, globalConfig, op, args, errors, result, out,
                   malStore, anilistStore, selVars, cvVars, auxVars>>

\* ... and its result returned as it is
SingleReturn(env) ==
    /\ pc = "singleWait"
    /\ AdapterReturns(Primary, env,
                      RunAdapter(op, Primary, args, globalConfig, env),
                      "done", <<>>, FALSE)

\* // Update MAL
MALInvoke ==
    /\ pc = "mal"
    /\ MALEligible(args)
    /\ calls' = Append(calls, CallRec(op, "MAL", args))
    /\ pc' = AfterInvoke("MAL")
    /\ UNCHANGED <<config, globalConfig, op, args, errors, result, out,
                   malStore, anilistStore, selVars, cvVars, auxVars>>

MALSkip ==
    /\ pc = "mal"
    /\ ~MALEligible(args)
    /\ errors' = ErrorsAfterSkip(errors, "MAL")
    /\ pc' = "anilist"
    /\ UNCHANGED <<config, globalConfig, op, args, result, calls, out,
                   malStore, anilistStore, selVars, cvVars, auxVars>>

MALReturn(env) ==
    /\ pc = "malWait"
    /\ LET outc == RunAdapter(op, "MAL", args, globalConfig, env)
       IN  AdapterReturns("MAL", env, outc, AfterMAL(~outc.err.nil),
                          CoordLines(op, "MAL", args), TRUE)

\* // Update AniList
AniListInvoke ==
    /\ pc = "anilist"
    /\ AniListEligible(args)
    /\ calls' = Append(calls, CallRec(op, "AniList", args))
    /\ pc' = AfterInvoke("AniList")
    /\ UNCHANGED <<config, globalConfig, op, args, errors, result, out,
                   malStore, anilistStore, selVars, cvVars, auxVars>>

AniListSkip ==
    /\ pc = "anilist"
    /\ ~AniListEligible(args)
    /\ errors' = ErrorsAfterSkip(errors, "AniList")
    /\ pc' = "agg"
    /\ UNCHANGED <<config, globalConfig, op, args, result, calls, out,
                   malStore, anilistStore, selVars, cvVars, auxVars>>

AniListReturn(env) ==
    /\ pc = "anilistWait"
    /\ AdapterReturns("AniList", env,
                      RunAdapter(op, "AniList", args, globalConfig, env),
                      "agg", CoordLines(op, "AniList", args), TRUE)

\* if len(errors) > 0 { return fmt.Errorf(...) }; return nil
Aggregate ==
    /\ pc = "agg"
    /\ result' = AggregateResult(errors)
    /\ pc' = "done"
    /\ UNCHANGED <<config, globalConfig, op, args, errors, calls, out,
                   malStore, anilistStore, selVars, cvVars, auxVars>>

----------------------------------------------------------------------------
(* Service Selector, run on its own inputs *)

NameAlphabet == {"m", "a", "l", "M", "A", "L"}

\* every name of at most MaxNameLen letters, and the full names
SelNames ==
    UNION {[1 .. k -> NameAlphabet] : k \in 0 .. MaxNameLen}
        \cup {sMyanimelist, sMyAnimeList, sAnilist, sAniList, sKitsu,
              sMal \o <<" ">>, sMyanimelist \o <<"s">>}

NoSelConfig == [TrackingService |-> <<>>, DualTracking |-> FALSE]

SelIdle ==
    selConfig = NoSelConfig /\ selResult = "none" /\ selConfigAfter = NoSelConfig

SelInit ==
    /\ selConfig \in [TrackingService : SelNames, DualTracking : BOOLEAN]
    /\ selResult = "none"
    /\ selConfigAfter = selConfig

\* GetTrackingService reads config.TrackingService and writes nothing
ConfigAfterGetTrackingService(cfg) == cfg

----------------------------------------------------------------------------
(* Identity Translator *)

\* what the GraphQL backend may answer to the lookup by MAL id
LookupResponses ==
    {"send-failed", "non-200", "not-json", "no-data", "no-media", "no-id", "ok"}

\* the ids a cross-reference lookup may find
LookupIDs == 1 .. MaxID + 1

CvOutcome(id, err, panicked, lookups) ==
    [done |-> TRUE, id |-> id, err |-> err, panicked |-> panicked,
     lookups |-> lookups]

\* ConvertMALIDToAnilist; media["id"].(float64) panics when id is no number
ConvertMALIDToAnilist(malID, token, resp, found) ==
    LET lk == <<[query |-> "Media(idMal)", id |-> malID]>>
    IN  CASE resp = "send-failed" ->
               CvOutcome(0, Err(<<"failed to send request: ", "transport">>), FALSE, lk)
          [] resp = "non-200" ->
               CvOutcome(0, Err(<<"failed with status ", "non-200">>), FALSE, lk)
          [] resp = "not-json" ->
               CvOutcome(0, Err(<<"failed to unmarshal response: ", "json">>), FALSE, lk)
          [] resp = "no-data" ->
               CvOutcome(0, Err(<<"invalid response format">>), FALSE, lk)
          [] resp = "no-media" ->
               CvOutcome(0, Err(<<"anime not found">>), FALSE, lk)
          [] resp = "no-id" ->
               CvOutcome(0, Nil, TRUE, lk)
          [] resp = "ok" ->
               CvOutcome(found, Nil, FALSE, lk)

\* GetAnimeMalID (anilist.go): the lookup of an AniList media's idMal
GetAnimeMalID(anilistID, resp, found) ==
    LET lk == <<[query |-> "Media(id).idMal", id |-> anilistID]>>
    IN  IF resp = "ok" THEN CvOutcome(found, Nil, FALSE, lk)
        ELSE CvOutcome(0, Err(<<"failed to get MAL ID: ", resp>>), FALSE, lk)

ConvertIDIfNeededNoShortcut(id, fromService, toService, resp, found) ==
    IF fromService = sAnilist /\ (toService = sMal \/ toService = sMyanimelist)
    THEN GetAnimeMalID(id, resp, found)
    ELSE IF (fromService = sMal \/ fromService = sMyanimelist) /\ toService = sAnilist
    THEN ConvertMALIDToAnilist(id, "", resp, found)
    ELSE CvOutcome(id, Err(<<"unsupported service conversion: ">> \o fromService
                               \o <<" to ">> \o toService), FALSE, <<>>)

\* ConvertIDIfNeeded
ConvertIDIfNeeded(id, fromService, toService, resp, found) ==
    IF fromService = toService
    THEN CvOutcome(id, Nil, FALSE, <<>>)
    ELSE IF fromService = sAnilist /\ (toService = sMal \/ toService = sMyanimelist)
    THEN GetAnimeMalID(id, resp, found)
    ELSE IF (fromService = sMal \/ fromService = sMyanimelist) /\ toService = sAnilist
    THEN ConvertMALIDToAnilist(id, "", resp, found)
    ELSE CvOutcome(id, Err(<<"unsupported service conversion: ">> \o fromService
                               \o <<" to ">> \o toService), FALSE, <<>>)

CvNames == {sEmpty, sMal, sMAL, sMyanimelist, sAnilist, sAniList, sKitsu}

NoCvArgs == [id |-> 0, fromService |-> <<>>, toService |-> <<>>]

NoCvResult == [done |-> FALSE, id |-> 0, err |-> Nil, panicked |-> FALSE,
               lookups |-> <<>>]

CvIdle == cvArgs = NoCvArgs /\ cvResult = NoCvResult /\ cvLookups = <<>>

CvInit ==
    /\ cvArgs \in [id : IDs, fromService : CvNames, toService : CvNames]
    /\ cvResult = NoCvResult
    /\ cvLookups = <<>>

----------------------------------------------------------------------------
(* The functions modelled further below, when they are not running *)

NotRun == [done |-> FALSE]

FdIdle == fd = NotRun

LcIdle == lc = NotRun

StIdle == su = NotRun

RtIdle == rt = NotRun

PgIdle == pg = NotRun

SrIdle == sr = NotRun

ThIdle == th = NotRun

UnIdle == un = NotRun

SqIdle == sq = NotRun

OaIdle == oa = NotRun

DlIdle == dl = NotRun

DfIdle == df = NotRun

MoreIdle == SrIdle /\ ThIdle /\ UnIdle /\ SqIdle /\ OaIdle /\ DlIdle /\ DfIdle

AuxIdle == FdIdle /\ LcIdle /\ StIdle /\ RtIdle /\ PgIdle /\ MoreIdle

----------------------------------------------------------------------------
(* The coordinator's specification *)

Init == DualInit /\ SelIdle /\ CvIdle /\ AuxIdle

Next ==
    \/ \E o \in Ops : \E a \in ArgSets(o) : Call(o, a)
    \/ SingleInvoke
    \/ \E env \in Envs(op) : SingleReturn(env)
    \/ MALInvoke
    \/ MALSkip
    \/ \E env \in Envs(op) : MALReturn(env)
    \/ AniListInvoke
    \/ AniListSkip
    \/ \E env \in Envs(op) : AniListReturn(env)
    \/ Aggregate

Spec == Init /\ [][Next]_vars

DualIdle ==
    /\ config = NoSelConfig
    /\ globalConfig = [isNil |-> TRUE, RofiSelection |-> FALSE]
    /\ pc = "idle"
    /\ op = "none"
    /\ args = NoArgs
    /\ errors = <<>>
    /\ result = Nil
    /\ calls = <<>>
    /\ out = <<>>
    /\ malStore = [i \in 1 .. MaxID |-> BlankEntry]
    /\ anilistStore = [i \in 1 .. MaxID |-> BlankEntry]

----------------------------------------------------------------------------
(* The selector's specification: GetTrackingService on every config *)

\* a call of GetTrackingService(selConfig)
Resolve ==
    /\ selResult = "none"
    /\ selResult' = GetTrackingService(selConfig)
    /\ selConfigAfter' = ConfigAfterGetTrackingService(selConfig)
    /\ UNCHANGED <<selConfig, dualVars, cvVars, auxVars>>

SelectorInit == DualIdle /\ SelInit /\ CvIdle /\ AuxIdle

SelectorNext == Resolve

SpecSelector == SelectorInit /\ [][SelectorNext]_vars

----------------------------------------------------------------------------
(* The translator's specification: ConvertIDIfNeeded on every argument *)

\* a call of ConvertIDIfNeeded(id, fromService, toService)
Convert(resp, found) ==
    /\ ~cvResult.done
    /\ LET r == ConvertIDIfNeeded(cvArgs.id, cvArgs.fromService, cvArgs.toService,
                                  resp, found)
       IN  /\ cvResult' = r
           /\ cvLookups' = cvLookups \o r.lookups
    /\ UNCHANGED <<cvArgs, dualVars, selVars, auxVars>>

ConvertInit == DualIdle /\ SelIdle /\ CvInit /\ AuxIdle

ConvertNext == \E resp \in LookupResponses : \E found \in LookupIDs : Convert(resp, found)

SpecConvert == ConvertInit /\ [][ConvertNext]_vars

----------------------------------------------------------------------------
(* Unified list lookup: FindAnimeByIDUnified *)

MaxEntries == 2   \* a list holds at most this many entries

\* the fields of AnimeList, in the order FindAnimeByIDUnified lists them
CategoryNames ==
    <<"Watching", "Completed", "Paused", "Dropped", "Planning", "Rewatching">>

FindIDs == 1 .. MaxID + 1

\* an Entry: its Media.ID, and tag for the rest of its fields
EntryOf(id, tag) == [id |-> id, tag |-> tag]

NoEntry == EntryOf(0, 0)

\* the AnimeList that holds the placed entries, each in the category it was
\* placed in, in the order of placement
ListOf(placed) ==
    [c \in {CategoryNames[k] : k \in 1 .. 6} |->
        LET idx == SelectSeq([i \in 1 .. Len(placed) |-> i],
                             LAMBDA i : CategoryNames[placed[i].cat] = c)
        IN  [j \in 1 .. Len(idx) |-> EntryOf(placed[idx[j]].id, idx[j])]]

AnimeLists ==
    {ListOf(p) : p \in UNION {[1 .. n -> [cat : 1 .. 6, id : FindIDs]] :
                                n \in 0 .. MaxEntries}}

IDTexts ==
    {Itoa(i) : i \in 0 .. MaxID + 2}
        \cup {<<"+", "1">>, <<"0", "1">>, <<"-", "1">>, <<"1", "a">>,
              <<"a", "b", "c">>, <<" ", "1">>, <<>>}

CategoriesDroppedFirst(list) ==
    <<list.Dropped, list.Watching, list.Completed, list.Paused, list.Planning,
      list.Rewatching>>

\* categories := [][]Entry{list.Watching, list.Completed, ...}
Categories(list) ==
    <<list.Watching, list.Completed, list.Paused, list.Dropped, list.Planning,
      list.Rewatching>>

\* the entries in the order the two nested loops visit them
RECURSIVE Flatten(_)
Flatten(cats) == IF cats = <<>> THEN <<>> ELSE cats[1] \o Flatten(Tail(cats))

FindResult(entry, isNil, err, compared) ==
    [entry |-> entry, isNil |-> isNil, err |-> err, compared |-> compared]

\* the two loops: the first entry whose Media.ID is id, or the not-found error
ScanFor(list, id) ==
    LET flat == Flatten(Categories(list))
        hits == {i \in 1 .. Len(flat) : flat[i].id = id}
    IN  IF hits = {}
        THEN FindResult(NoEntry, TRUE,
                        Err(<<"anime with ID ">> \o Itoa(id) \o <<" not found">>),
                        Len(flat))
        ELSE LET first == CHOOSE i \in hits : \A j \in hits : i <= j
             IN  FindResult(flat[first], FALSE, Nil, first)

FindAnimeByIDUnifiedUnparsedAsZero(list, idStr) ==
    IF ~AtoiOk(idStr) THEN ScanFor(list, 0) ELSE ScanFor(list, Atoi(idStr))

\* FindAnimeByIDUnified; compared counts the entries the loops looked at
FindAnimeByIDUnified(list, idStr) ==
    IF ~AtoiOk(idStr)
    THEN FindResult(NoEntry, TRUE, Err(<<"invalid ID format: ">> \o idStr), 0)
    ELSE ScanFor(list, Atoi(idStr))

FdInit ==
    fd \in [done : {FALSE}, list : AnimeLists, idStr : IDTexts,
            res : {FindResult(NoEntry, TRUE, Nil, 0)}]

\* a call of FindAnimeByIDUnified(fd.list, fd.idStr)
Find ==
    /\ ~fd.done
    /\ fd' = [fd EXCEPT !.done = TRUE,
                        !.res = FindAnimeByIDUnified(fd.list, fd.idStr)]
    /\ UNCHANGED <<dualVars, selVars, cvVars, lc, su, rt, pg, moreVars>>

FindInit ==
    DualIdle /\ SelIdle /\ CvIdle /\ FdInit /\ LcIdle /\ StIdle /\ RtIdle /\ PgIdle
        /\ MoreIdle

FindNext == Find

SpecFind == FindInit /\ [][FindNext]_vars

----------------------------------------------------------------------------
(* The list MyAnimeList returns: convertMALToAnilistFormat *)

KnownMALStatuses ==
    {"watching", "completed", "on_hold", "dropped", "plan_to_watch"}

\* list_status.status as the server may send it: a known string, a string
\* the adapter does not know, or nothing
MALStatuses == KnownMALStatuses \cup {"rewatched", ""}

\* a MALAnimeListEntry: Node.ID and the fields of ListStatus
MALEntry(id, ls) ==
    [id |-> id, status |-> ls.status, rewatching |-> ls.rewatching,
     score |-> ls.score, episodes |-> ls.episodes]

MALEntries ==
    {MALEntry(id, [BlankEntry EXCEPT !.status = s, !.rewatching = r]) :
        id \in FindIDs, s \in MALStatuses, r \in BOOLEAN}

StatusOfMALDefaultPlanning(s) ==
    CASE s = "watching"      -> "CURRENT"
      [] s = "completed"     -> "COMPLETED"
      [] s = "on_hold"       -> "PAUSED"
      [] s = "dropped"       -> "DROPPED"
      [] s = "plan_to_watch" -> "PLANNING"
      [] OTHER               -> "PLANNING"

\* the switch of convertMALToAnilistFormat, with its default
StatusOfMAL(s) ==
    CASE s = "watching"      -> "CURRENT"
      [] s = "completed"     -> "COMPLETED"
      [] s = "on_hold"       -> "PAUSED"
      [] s = "dropped"       -> "DROPPED"
      [] s = "plan_to_watch" -> "PLANNING"
      [] OTHER               -> "CURRENT"

ConvertedStatusIgnoringFlag(e) == StatusOfMAL(e.status)

\* the status of the converted entry: the switch, then the is_rewatching check
ConvertedStatus(e) ==
    IF e.rewatching THEN "REPEATING" ELSE StatusOfMAL(e.status)

\* the map built for one entry
ConvertedEntry(e) ==
    [id |-> e.id, status |-> ConvertedStatus(e), score |-> e.score,
     progress |-> e.episodes]

convertMALToAnilistFormatKnownOnly(malEntries) ==
    LET known == SelectSeq(malEntries, LAMBDA e : e.status \in KnownMALStatuses)
    IN  [i \in 1 .. Len(known) |-> ConvertedEntry(known[i])]

\* convertMALToAnilistFormat
convertMALToAnilistFormat(malEntries) ==
    [i \in 1 .. Len(malEntries) |-> ConvertedEntry(malEntries[i])]

LcInit ==
    lc \in [done : {FALSE}, out : {<<>>},
            malEntries : UNION {[1 .. n -> MALEntries] : n \in 0 .. MaxEntries}]

\* a call of convertMALToAnilistFormat(lc.malEntries)
ConvertList ==
    /\ ~lc.done
    /\ lc' = [lc EXCEPT !.done = TRUE,
                        !.out = convertMALToAnilistFormat(lc.malEntries)]
    /\ UNCHANGED <<dualVars, selVars, cvVars, fd, su, rt, pg, moreVars>>

ListInit ==
    DualIdle /\ SelIdle /\ CvIdle /\ FdIdle /\ LcInit /\ StIdle /\ RtIdle /\ PgIdle
        /\ MoreIdle

ListNext == ConvertList

SpecList == ListInit /\ [][ListNext]_vars

----------------------------------------------------------------------------
(* A status update of MyAnimeList on its own *)

\* what time.Now().Format("2006-01-02") may give
Dates == {"2024-02-29", "2025-12-31"}

\* what my_list_status may hold before the update
PriorEntries ==
    {[BlankEntry EXCEPT !.status = s, !.rewatching = r] :
        s \in {"", "completed"}, r \in BOOLEAN}

StInit ==
    su \in [done : {FALSE}, status : CanonicalStatuses \cup {"WATCHING"},
            today : Dates, net : NetOutcomes, before : PriorEntries,
            after : {BlankEntry}, back : {""},
            out : {Outcome(Nil, <<>>, FALSE, NoFields)}]

\* the MAL entry that holds exactly what a status form sends
SentEntry(fields) == MALEntry(1, ApplyPatch(BlankEntry, fields))

\* a call of UpdateMALAnimeStatus for an anime of the user's list; back is
\* the status convertMALToAnilistFormat gives to what the form sent
SetStatus ==
    /\ ~su.done
    /\ LET outc == UpdateMALAnimeStatusAt("token", 1, su.status, su.today, su.net)
       IN  su' = [su EXCEPT !.done = TRUE,
                            !.out = outc,
                            !.back = convertMALToAnilistFormat(
                                         <<SentEntry(outc.fields)>>)[1].status,
                            !.after = IF outc.err.nil
                                      THEN ApplyPatch(su.before, outc.fields)
                                      ELSE su.before]
    /\ UNCHANGED <<dualVars, selVars, cvVars, fd, lc, rt, pg, moreVars>>

StatusInit ==
    DualIdle /\ SelIdle /\ CvIdle /\ FdIdle /\ LcIdle /\ StInit /\ RtIdle /\ PgIdle
        /\ MoreIdle

StatusNext == SetStatus

SpecStatus == StatusInit /\ [][StatusNext]_vars

----------------------------------------------------------------------------
(* A rating of MyAnimeList on its own *)

MinScore == 0
MaxScore == 10

\* the integers a user may enter: the scores, and some on either side
EnteredScores == MinScore - 3 .. MaxScore + 3

\* how the user may write the integer n
ScoreTexts(n) == {Itoa(n)} \cup (IF n >= 0 THEN {<<"+">> \o Itoa(n)} ELSE {})

RtInit ==
    /\ \E n \in EnteredScores : \E t \in ScoreTexts(n) :
       \E g \in GlobalConfigs : \E f \in BOOLEAN :
           rt = [done |-> FALSE, entered |-> n, gcfg |-> g,
                 input |-> [fails |-> f, text |-> IF f THEN <<>> ELSE t],
                 net |-> "ok", before |-> BlankEntry, after |-> BlankEntry,
                 out |-> Outcome(Nil, <<>>, FALSE, NoFields)]

\* a call of RateAnimeMAL for an anime of the user's list, answered as net
Rate(net) ==
    /\ ~rt.done
    /\ LET outc == RateAnimeMAL("token", 1, rt.gcfg, rt.input, net)
       IN  rt' = [rt EXCEPT !.done = TRUE,
                            !.net = net,
                            !.out = outc,
                            !.after = IF outc.requested /\ net = "ok"
                                      THEN ApplyPatch(rt.before, outc.fields)
                                      ELSE rt.before]
    /\ UNCHANGED <<dualVars, selVars, cvVars, fd, lc, su, pg, moreVars>>

RateInit ==
    DualIdle /\ SelIdle /\ CvIdle /\ FdIdle /\ LcIdle /\ StIdle /\ RtInit /\ PgIdle
        /\ MoreIdle

RateNext == \E net \in NetOutcomes : Rate(net)

SpecRate == RateInit /\ [][RateNext]_vars

----------------------------------------------------------------------------
(* Progress updates of an anime the user has on both lists, made again and
   again with the same arguments *)

MaxRuns == 2   \* UpdateAnimeProgressDual is called at most this often

\* an entry that holds k watched episodes; its score, which no progress
\* update touches, is k as well and so tells what the entry held at first
EntryWatched(k) == [BlankEntry EXCEPT !.episodes = k, !.score = k]

ProgressStores == [1 .. MaxID -> {EntryWatched(k) : k \in Progresses}]

\* the anime is id 1 on AniList and on MyAnimeList, where it may not be
\* linked (id 0); the AniList token may be missing
ProgressArgs ==
    [anilistToken : Tokens("AniList"), malToken : {"mal-token"},
     anilistID : {1}, malID : {0, 1}, progress : Progresses, status : {""}]

ProgressDualInit ==
    /\ config = [TrackingService |-> sMAL, DualTracking |-> TRUE]
    /\ globalConfig = [isNil |-> FALSE, RofiSelection |-> FALSE]
    /\ pc = "idle"
    /\ op = "none"
    /\ args = NoArgs
    /\ errors = <<>>
    /\ result = Nil
    /\ calls = <<>>
    /\ out = <<>>
    /\ malStore \in ProgressStores
    /\ anilistStore \in ProgressStores

\* the caller, after a call that returned nil, makes the same call again
Repeat ==
    /\ pc = "done"
    /\ result.nil
    /\ Len(calls) < 2 * (MaxRuns - 1) + 1
    /\ errors' = <<>>
    /\ pc' = IF ~config.DualTracking THEN "single" ELSE "mal"
    /\ UNCHANGED <<config, globalConfig, op, args, result, calls, out, malStore,
                   anilistStore, selVars, cvVars, auxVars>>

ProgressInit == ProgressDualInit /\ SelIdle /\ CvIdle /\ AuxIdle

ProgressNext ==
    \/ \E a \in ProgressArgs : Call("Progress", a)
    \/ MALInvoke
    \/ MALSkip
    \/ \E env \in Envs(op) : MALReturn(env)
    \/ AniListInvoke
    \/ AniListSkip
    \/ \E env \in Envs(op) : AniListReturn(env)
    \/ Aggregate
    \/ Repeat

SpecProgress == ProgressInit /\ [][ProgressNext]_vars

----------------------------------------------------------------------------
(* The paginated list fetch: GetMALUserAnimeList *)

MaxPages   == 2   \* the server's chain has at most this many pages
MaxPageLen == 2   \* a page has at most this many entries

\* the entries the server's pages are made of
PageEntries ==
    {MALEntry(1, [BlankEntry EXCEPT !.status = "watching"]),
     MALEntry(2, [BlankEntry EXCEPT !.status = "completed", !.rewatching = TRUE])}

\* the data of a page
Pages == UNION {[1 .. n -> PageEntries] : n \in 0 .. MaxPageLen}

\* the server's pages: page i links to page i + 1, the last page to none
Chains == UNION {[1 .. n -> Pages] : n \in 1 .. MaxPages}

\* one request: client.Do fails, the status is not 200, the body cannot be
\* read, the body is no JSON, or the page arrives
FetchOutcomes == {"ok", "net", "http", "read", "json"}

FetchErr(o) ==
    CASE o = "net"  -> Err(<<"failed to make request: ", "transport">>)
      [] o = "http" -> Err(<<"failed to get anime list. Status Code: ", "non-200">>)
      [] o = "read" -> Err(<<"failed to read response body: ", "io">>)
      [] o = "json" -> Err(<<"failed to unmarshal response: ", "json">>)

\* Paging.Next of page i of the chain: 0 stands for the empty string
PagingNext(chain, i) == IF i < Len(chain) THEN i + 1 ELSE 0

AllDataPrepended(allData, data) == data \o allData

\* allData = append(allData, animeList.Data...)
AllDataAppended(allData, data) == allData \o data

NoList == [isNil |-> TRUE, entries |-> <<>>]

PgInit ==
    pg \in [done : {FALSE}, chain : Chains, nextURL : {1}, allData : {<<>>},
            requests : {<<>>}, result : {NoList}, err : {Nil}]

\* one iteration of the loop: the page at nextURL is requested
FetchPage(o) ==
    /\ ~pg.done
    /\ pg.nextURL # 0
    /\ pg' = IF o # "ok"
             THEN [pg EXCEPT !.done = TRUE,
                             !.requests = Append(@, pg.nextURL),
                             !.result = NoList,
                             !.err = FetchErr(o)]
             ELSE [pg EXCEPT !.requests = Append(@, pg.nextURL),
                             !.allData = AllDataAppended(@, pg.chain[pg.nextURL]),
                             !.nextURL = PagingNext(pg.chain, pg.nextURL)]
    /\ UNCHANGED <<dualVars, selVars, cvVars, fd, lc, su, rt, moreVars>>

\* the loop is left: the result is built and returned
ReturnList ==
    /\ ~pg.done
    /\ pg.nextURL = 0
    /\ pg' = [pg EXCEPT !.done = TRUE,
                        !.result = [isNil |-> FALSE,
                                    entries |-> convertMALToAnilistFormat(pg.allData)],
                        !.err = Nil]
    /\ UNCHANGED <<dualVars, selVars, cvVars, fd, lc, su, rt, moreVars>>

PagesInit ==
    DualIdle /\ SelIdle /\ CvIdle /\ FdIdle /\ LcIdle /\ StIdle /\ RtIdle /\ PgInit
        /\ MoreIdle

PagesNext ==
    \/ \E o \in FetchOutcomes : FetchPage(o)
    \/ ReturnList

\* every request is answered or fails, and the loop goes on
SpecPages == PagesInit /\ [][PagesNext]_vars /\ WF_vars(PagesNext)

----------------------------------------------------------------------------
(* The search: SearchAnimeMAL *)

FirstIdle ==
    /\ DualIdle /\ SelIdle /\ CvIdle
    /\ FdIdle /\ LcIdle /\ StIdle /\ RtIdle /\ PgIdle

MaxResults == 7   \* the server answers with at most this many anime

Min2(a, b) == IF a <= b THEN a ELSE b

\* levenshtein(a, b): the edit distance of two strings
RECURSIVE levenshtein(_, _)
levenshtein(a, b) ==
    IF a = <<>> THEN Len(b)
    ELSE IF b = <<>> THEN Len(a)
    ELSE Min2(Min2(levenshtein(Tail(a), b) + 1, levenshtein(a, Tail(b)) + 1),
              levenshtein(Tail(a), Tail(b)) + (IF a[1] = b[1] THEN 0 ELSE 1))

SearchTitles == {<<"a", "b">>, <<"a", "c", "d">>}

SearchQueries == {<<"a", "b">>, <<"a", "c">>}

\* searchResult.Data: the i-th anime of the answer has id i
SearchData == UNION {[1 .. n -> SearchTitles] : n \in 0 .. MaxResults}

\* the loop that fills scored
Scored(data, query) ==
    [i \in 1 .. Len(data) |->
        [id |-> Itoa(i), title |-> data[i], score |-> levenshtein(data[i], query)]]

\* insertionSort of package sort: element i moves left past every element
\* that is greater than it
RECURSIVE InsertionSorted(_)
InsertionSorted(sc) ==
    IF Len(sc) <= 1 THEN sc
    ELSE LET front == InsertionSorted(SubSeq(sc, 1, Len(sc) - 1))
             x     == sc[Len(sc)]
             keep  == Cardinality({i \in 1 .. Len(front) : front[i].score <= x.score})
         IN  SubSeq(front, 1, keep) \o <<x>> \o SubSeq(front, keep + 1, Len(front))

\* the ShellSort pass with gap 6 that quickSort makes on a short slice:
\* element i and element i - 6 are swapped when they are out of order
ShellPassed(sc) ==
    [i \in 1 .. Len(sc) |->
        IF i + 6 <= Len(sc) /\ sc[i + 6].score < sc[i].score THEN sc[i + 6]
        ELSE IF i > 6 /\ sc[i].score < sc[i - 6].score THEN sc[i - 6]
        ELSE sc[i]]

\* sort.Slice is not guaranteed to be stable. On a slice of at most 12
\* elements the Go releases do one of two things: insertion sort alone
\* ("pdqsort", Go 1.19 and later) or the ShellSort pass and then insertion
\* sort ("quickSort", earlier releases).
SortBuilds == {"pdqsort", "quickSort"}

SortSlice(build, sc) ==
    IF build = "pdqsort" THEN InsertionSorted(sc) ELSE InsertionSorted(ShellPassed(sc))

\* the loop that fills results
Options(sc) == [i \in 1 .. Len(sc) |-> [Key |-> sc[i].id, Label |-> sc[i].title]]

SearchErr(o) ==
    CASE o = "net"  -> Err(<<"failed to make request: ", "transport">>)
      [] o = "http" -> Err(<<"failed to search for anime. Status Code: ", "non-200">>)
      [] o = "read" -> Err(<<"failed to read response body: ", "io">>)
      [] o = "json" -> Err(<<"failed to unmarshal response: ", "json">>)

\* SearchAnimeMAL's return values
SearchAnimeMAL(query, data, o, build) ==
    IF o # "ok" THEN [isNil |-> TRUE, results |-> <<>>, err |-> SearchErr(o)]
    ELSE [isNil |-> Len(data) = 0,
          results |-> Options(SortSlice(build, Scored(data, query))),
          err |-> Nil]

SrInit ==
    sr \in [done : {FALSE}, query : SearchQueries, data : SearchData,
            build : SortBuilds,
            res : {[isNil |-> TRUE, results |-> <<>>, err |-> Nil]}]

\* a call of SearchAnimeMAL(sr.query, token), the request ending as o
Search(o) ==
    /\ ~sr.done
    /\ sr' = [sr EXCEPT !.done = TRUE,
                        !.res = SearchAnimeMAL(sr.query, sr.data, o, sr.build)]
    /\ UNCHANGED <<firstVars, th, un, sq, oa, dl, df>>

SearchInit ==
    /\ FirstIdle /\ SrInit
    /\ ThIdle /\ UnIdle /\ SqIdle /\ OaIdle /\ DlIdle /\ DfIdle

SearchNext == \E o \in FetchOutcomes : Search(o)

SpecSearch == SearchInit /\ [][SearchNext]_vars

----------------------------------------------------------------------------
(* Two *Dual invocations on two threads, dual tracking enabled *)

Threads == {1, 2}

\* the console: GetGlobalConfig() is set and RofiSelection is off
ConsoleConfig == [isNil |-> FALSE, RofiSelection |-> FALSE]

\* the lines waiting on standard input, which fmt.Scanln reads and which
\* belongs to the process, not to a caller
StdinContents ==
    {<<<<"7">>, <<"3">>>>, <<<<"7">>, <<"3">>, <<"9">>, <<"1">>>>}

\* thread t works on anime t, with its own tokens
ThreadArgs(t) ==
    [anilistToken : Tokens("AniList"), malToken : {"mal-token"},
     anilistID : {t}, malID : {t}, progress : {1}, status : {""}]

\* an invocation: its position, arguments and locals, the answers the two
\* backends will give to it, and the adapter calls it has made
Invocations(t) ==
    [pc : {"mal"}, op : {"Progress", "Rating"}, args : ThreadArgs(t),
     resp : [MAL : NetOutcomes, AniList : {"ok"}],
     errors : {<<>>}, result : {Nil}, calls : {<<>>}]

\* the adapter of this operation reads the score from the input source
ReadsInput(o) == o = "Rating"

\* one line is taken from standard input; at end of input nothing is read
LineRead(stdin) ==
    [fails |-> FALSE, text |-> IF stdin = <<>> THEN <<>> ELSE Head(stdin)]

StdinAfterRead(stdin) == IF stdin = <<>> THEN <<>> ELSE Tail(stdin)

\* the block of one backend: the eligibility test, the adapter call with the
\* input it reads, the errors it appends
BackendBlock(inv, backend, stdin, nextpc) ==
    IF (IF backend = "MAL" THEN MALEligible(inv.args) ELSE AniListEligible(inv.args))
    THEN LET env  == [net |-> inv.resp[backend],
                      input |-> IF ReadsInput(inv.op) THEN LineRead(stdin)
                                ELSE [fails |-> FALSE, text |-> <<>>]]
             outc == RunAdapter(inv.op, backend, inv.args, ConsoleConfig, env)
         IN  [inv |-> [inv EXCEPT
                          !.pc = nextpc,
                          !.calls = Returned(Append(@, CallRec(inv.op, backend, inv.args)),
                                             outc),
                          !.errors = IF outc.err.nil THEN @
                                     ELSE ErrorsAppend(@, ErrorsEntry(backend, outc.err))],
              stdin |-> IF ReadsInput(inv.op) THEN StdinAfterRead(stdin) ELSE stdin]
    ELSE [inv |-> [inv EXCEPT !.pc = nextpc,
                              !.errors = ErrorsAfterSkip(@, backend)],
          stdin |-> stdin]

\* the next step of an invocation that has not returned: its MAL block, its
\* AniList block, or the aggregated return
InvocationStep(inv, stdin) ==
    CASE inv.pc = "mal"     -> BackendBlock(inv, "MAL", stdin, AfterMAL(FALSE))
      [] inv.pc = "anilist" -> BackendBlock(inv, "AniList", stdin, "agg")
      [] inv.pc = "agg"     ->
           [inv |-> [inv EXCEPT !.pc = "done", !.result = AggregateResult(inv.errors)],
            stdin |-> stdin]

\* the invocation run from its start to its return with no other thread
RunAlone(inv, stdin) ==
    LET s1 == InvocationStep(inv, stdin)
        s2 == InvocationStep(s1.inv, s1.stdin)
        s3 == InvocationStep(s2.inv, s2.stdin)
    IN  s3.inv

ThInit ==
    \E i1 \in Invocations(1) : \E i2 \in Invocations(2) : \E in \in StdinContents :
        th = [done |-> FALSE, stdin |-> in, stdin0 |-> in,
              inv |-> <<i1, i2>>, inv0 |-> <<i1, i2>>]

\* thread t takes its next step; the reads of one adapter call are taken
\* together
ThreadStep(t) ==
    /\ th.inv[t].pc # "done"
    /\ LET n == InvocationStep(th.inv[t], th.stdin)
       IN  th' = [th EXCEPT !.inv[t] = n.inv,
                            !.stdin = n.stdin,
                            !.done = \A u \in Threads \ {t} : th.inv[u].pc = "done"
                                     /\ n.inv.pc = "done"]
    /\ UNCHANGED <<firstVars, sr, un, sq, oa, dl, df>>

ThreadsInit ==
    /\ FirstIdle /\ ThInit
    /\ SrIdle /\ UnIdle /\ SqIdle /\ OaIdle /\ DlIdle /\ DfIdle

ThreadsNext == \E t \in Threads : ThreadStep(t)

SpecThreads == ThreadsInit /\ [][ThreadsNext]_vars

----------------------------------------------------------------------------
(* The unified progress update: UpdateAnimeProgressUnified *)

UnifiedConfigs == [TrackingService : DualNames, DualTracking : BOOLEAN]

\* UpdateAnimeProgressUnified: the adapter calls it makes, in order, with
\* their outcome, and its return value
UpdateAnimeProgressUnified(token, mediaID, progress, cfg, net) ==
    LET service == GetTrackingService(cfg)
        backend == IF service = "mal" THEN "MAL" ELSE "AniList"
        outc    == IF service = "mal"
                   THEN UpdateMALAnimeProgress(token, mediaID, progress, net)
                   ELSE UpdateAnimeProgress(token, mediaID, progress, net)
    IN  [calls |-> <<[backend |-> backend, token |-> token, id |-> mediaID,
                      fields |-> outc.fields, err |-> outc.err]>>,
         err |-> outc.err]

UnInit ==
    un \in [done : {FALSE}, config : UnifiedConfigs, token : {"", "token"},
            mediaID : 1 .. MaxID, progress : Progresses,
            malStore : ProgressStores, anilistStore : ProgressStores,
            calls : {<<>>}, err : {Nil}]

\* a call of UpdateAnimeProgressUnified, the request ending as net
UpdateUnified(net) ==
    /\ ~un.done
    /\ net = "ok" => Accepts(un.malStore, un.token, un.mediaID)
    /\ LET r == UpdateAnimeProgressUnified(un.token, un.mediaID, un.progress,
                                           un.config, net)
           c == r.calls[1]
       IN  un' = [un EXCEPT
                     !.done = TRUE,
                     !.calls = r.calls,
                     !.err = r.err,
                     !.malStore =
                         IF c.backend = "MAL" /\ net = "ok"
                         THEN [@ EXCEPT ![c.id] = ApplyPatch(@, c.fields)] ELSE @,
                     !.anilistStore =
                         IF c.backend = "AniList" /\ net = "ok"
                         THEN [@ EXCEPT ![c.id] = ApplySave(@, c.fields)] ELSE @]
    /\ UNCHANGED <<firstVars, sr, th, sq, oa, dl, df>>

UnifiedInit ==
    /\ FirstIdle /\ UnInit
    /\ SrIdle /\ ThIdle /\ SqIdle /\ OaIdle /\ DlIdle /\ DfIdle

UnifiedNext == \E net \in NetOutcomes : UpdateUnified(net)

SpecUnified == UnifiedInit /\ [][UnifiedNext]_vars

----------------------------------------------------------------------------
(* Status updates of one anime on MyAnimeList, one after the other, and the
   list fetched in between; the server's PATCH leaves the fields that are
   not sent as they are (ApplyPatch) *)

MaxCalls == 3   \* UpdateMALAnimeStatus is called at most this often

\* at first the anime is not being rewatched
SqInit ==
    sq \in [entry : {e \in PriorEntries : ~e.rewatching}, calls : {0}, last : {""}, fetched : {FALSE},
            read : {""}]

\* a successful call of UpdateMALAnimeStatus(token, 1, status)
SetStatusAgain(status) ==
    /\ sq.calls < MaxCalls
    /\ LET outc == UpdateMALAnimeStatusAt("token", 1, status, "today", "ok")
       IN  sq' = [sq EXCEPT !.entry = ApplyPatch(@, outc.fields),
                            !.calls = @ + 1,
                            !.last = status,
                            !.fetched = FALSE]
    /\ UNCHANGED <<firstVars, sr, th, un, oa, dl, df>>

\* GetMALUserAnimeList: the anime's entry is fetched and converted
FetchStatus ==
    /\ ~sq.fetched
    /\ sq' = [sq EXCEPT !.fetched = TRUE,
                        !.read = convertMALToAnilistFormat(
                                     <<MALEntry(1, sq.entry)>>)[1].status]
    /\ UNCHANGED <<firstVars, sr, th, un, oa, dl, df>>

SequenceInit ==
    /\ FirstIdle /\ SqInit
    /\ SrIdle /\ ThIdle /\ UnIdle /\ OaIdle /\ DlIdle /\ DfIdle

SequenceNext ==
    \/ \E status \in CanonicalStatuses : SetStatusAgain(status)
    \/ FetchStatus

SpecSequence == SequenceInit /\ [][SequenceNext]_vars

----------------------------------------------------------------------------
(* A rating of MyAnimeList, whatever the user types *)

\* lines of the user: integers in and out of range, and lines that are no
\* integer
TypedTexts ==
    RateTexts \cup {<<"6", "x">>, <<"x">>, <<"+", "5">>, <<"-">>, <<"1", "2", "3">>,
                    <<"0">>}

RtTypedInit ==
    /\ \E t \in TypedTexts : \E g \in GlobalConfigs : \E f \in BOOLEAN :
           /\ f => g.RofiSelection /\ t = <<>>
           /\ rt = [done |-> FALSE, entered |-> 0, gcfg |-> g,
                    input |-> [fails |-> f, text |-> t],
                    net |-> "ok", before |-> BlankEntry, after |-> BlankEntry,
                    out |-> Outcome(Nil, <<>>, FALSE, NoFields)]

RateTypedInit ==
    DualIdle /\ SelIdle /\ CvIdle /\ FdIdle /\ LcIdle /\ StIdle /\ RtTypedInit /\ PgIdle
        /\ MoreIdle

SpecRateTyped == RateTypedInit /\ [][RateNext]_vars

----------------------------------------------------------------------------
(* OAuth in the browser: authenticateWithBrowserMAL, the callback handler,
   the token-exchange goroutines and the context's timeout *)

MaxRequests == 2   \* the callback URL is requested at most this often

\* what a request to /oauth/callback carries: an error parameter, neither
\* error nor code, or a code
CallbackKinds == {"error", "no-code", "code"}

\* how a token exchange ends: the four failures, or an access token
ExchangeOutcomes ==
    {"post-failed", "non-200", "bad-json", "no-token", "token-a", "token-b"}

ExchangedToken(o) == IF o \in {"token-a", "token-b"} THEN o ELSE ""

\* a send that a handler or a goroutine is about to make: the channel, the
\* value, and whether it is a handler (which keeps its connection open)
Send(ch, val, handler) == [ch |-> ch, val |-> val, handler |-> handler]

\* errCh <- ... of the handler for a request without a code
HandlerSend(kind) ==
    IF kind = "error" THEN Send("errCh", "oauth error: ", TRUE)
    ELSE Send("errCh", "no authorization code received", TRUE)

\* the last statement of the exchange goroutine: errCh <- ... or
\* callbackCh <- tokenResponse.AccessToken
ExchangeSend(o) ==
    CASE o = "post-failed" -> Send("errCh", "failed to exchange code for token: ", FALSE)
      [] o = "non-200"     -> Send("errCh", "token exchange failed with status ", FALSE)
      [] o = "bad-json"    -> Send("errCh", "failed to parse token response: ", FALSE)
      [] o = "no-token"    -> Send("errCh", "no access token in response", FALSE)
      [] OTHER             -> Send("callbackCh", ExchangedToken(o), FALSE)

\* make(chan string, 1), make(chan error, 1)
ChanCap == 1

AuthReturn(token, err) == [token |-> token, err |-> err]

AfterSaveIgnoringFailure(ok, accessToken) == AuthReturn(accessToken, Nil)

\* if err := saveMALToken(...); err != nil { return "", ... }; return token
AfterSave(ok, accessToken) ==
    IF ok THEN AuthReturn(accessToken, Nil)
    ELSE AuthReturn("", Err(<<"failed to save token: ", "io">>))

\* the token file holds a valid token, or none that is valid
OaInit ==
    oa \in [pc : {"start"}, file : {"", "saved-token"}, server : {"off"},
            callbackCh : {<<>>}, errCh : {<<>>}, requests : {0},
            exchanging : {0}, sends : {<<>>}, timedOut : {FALSE},
            taken : {"none"}, accessToken : {""}, saveFailed : {FALSE},
            ret : {AuthReturn("", Nil)}]

\* the saved token is valid: it is returned at once
ReturnSaved ==
    /\ oa.pc = "start"
    /\ oa.file # ""
    /\ oa' = [oa EXCEPT !.pc = "returned", !.ret = AuthReturn(oa.file, Nil)]
    /\ UNCHANGED <<firstVars, sr, th, un, sq, dl, df>>

\* no valid token: the server goroutine is started, the browser opened, and
\* the function waits in its select; ListenAndServe serves, or fails and
\* sends its error
StartServer(listens) ==
    /\ oa.pc = "start"
    /\ oa.file = ""
    /\ oa' = [oa EXCEPT
                 !.pc = "select",
                 !.server = IF listens THEN "up" ELSE "failed",
                 !.sends = IF listens THEN @
                           ELSE Append(@, Send("errCh", "failed to start server: ", FALSE))]
    /\ UNCHANGED <<firstVars, sr, th, un, sq, dl, df>>

\* a request to /oauth/callback is handled: without a code the handler goes
\* on to send an error, with a code it starts an exchange goroutine
Callback(kind) ==
    /\ oa.server = "up"
    /\ oa.requests < MaxRequests
    /\ oa' = [oa EXCEPT
                 !.requests = @ + 1,
                 !.exchanging = IF kind = "code" THEN @ + 1 ELSE @,
                 !.sends = IF kind = "code" THEN @ ELSE Append(@, HandlerSend(kind))]
    /\ UNCHANGED <<firstVars, sr, th, un, sq, dl, df>>

\* an exchange goroutine gets its answer and goes on to its send
Exchange(o) ==
    /\ oa.exchanging > 0
    /\ oa' = [oa EXCEPT !.exchanging = @ - 1,
                        !.sends = Append(@, ExchangeSend(o))]
    /\ UNCHANGED <<firstVars, sr, th, un, sq, dl, df>>

Without(seq, i) == SubSeq(seq, 1, i - 1) \o SubSeq(seq, i + 1, Len(seq))

\* a send is made: the channel has room for its value
ChannelSend(i) ==
    /\ i \in 1 .. Len(oa.sends)
    /\ Len(oa[oa.sends[i].ch]) < ChanCap
    /\ oa' = [oa EXCEPT ![oa.sends[i].ch] = Append(@, oa.sends[i].val),
                        !.sends = Without(@, i)]
    /\ UNCHANGED <<firstVars, sr, th, un, sq, dl, df>>

\* ctx.Done(): the five minutes are over
Timeout ==
    /\ oa.pc \in {"select", "save", "shutdown"}
    /\ ~oa.timedOut
    /\ oa' = [oa EXCEPT !.timedOut = TRUE]
    /\ UNCHANGED <<firstVars, sr, th, un, sq, dl, df>>

\* case accessToken = <-callbackCh
SelectToken ==
    /\ oa.pc = "select"
    /\ oa.callbackCh # <<>>
    /\ oa' = [oa EXCEPT !.pc = "save",
                        !.taken = "token",
                        !.accessToken = Head(oa.callbackCh),
                        !.callbackCh = Tail(@)]
    /\ UNCHANGED <<firstVars, sr, th, un, sq, dl, df>>

\* case err := <-errCh
SelectError ==
    /\ oa.pc = "select"
    /\ oa.errCh # <<>>
    /\ oa' = [oa EXCEPT !.pc = "shutdown",
                        !.taken = "error",
                        !.errCh = Tail(@),
                        !.ret = AuthReturn("", Err(<<"authentication failed: ",
                                                     Head(oa.errCh)>>))]
    /\ UNCHANGED <<firstVars, sr, th, un, sq, dl, df>>

\* case <-ctx.Done()
SelectTimeout ==
    /\ oa.pc = "select"
    /\ oa.timedOut
    /\ oa' = [oa EXCEPT !.pc = "shutdown",
                        !.taken = "timeout",
                        !.ret = AuthReturn("", Err(<<"authentication timeout after 5 minutes">>))]
    /\ UNCHANGED <<firstVars, sr, th, un, sq, dl, df>>

\* saveMALToken writes the token file, or fails
SaveToken(ok) ==
    /\ oa.pc = "save"
    /\ oa' = [oa EXCEPT !.pc = "shutdown",
                        !.file = IF ok THEN oa.accessToken ELSE @,
                        !.saveFailed = ~ok,
                        !.ret = AfterSave(ok, oa.accessToken)]
    /\ UNCHANGED <<firstVars, sr, th, un, sq, dl, df>>

\* a handler that has not returned yet keeps its connection active
HandlerActive == \E i \in 1 .. Len(oa.sends) : oa.sends[i].handler

\* the deferred srv.Shutdown(ctx): it returns when no connection is active,
\* or when ctx is done; then the function returns
Shutdown ==
    /\ oa.pc = "shutdown"
    /\ ~HandlerActive \/ oa.timedOut
    /\ oa' = [oa EXCEPT !.pc = "returned", !.server = "closed"]
    /\ UNCHANGED <<firstVars, sr, th, un, sq, dl, df>>

OAuthInit ==
    /\ FirstIdle /\ OaInit
    /\ SrIdle /\ ThIdle /\ UnIdle /\ SqIdle /\ DlIdle /\ DfIdle

\* the steps of the function itself
AuthSteps ==
    \/ ReturnSaved
    \/ \E listens \in BOOLEAN : StartServer(listens)
    \/ SelectToken
    \/ SelectError
    \/ SelectTimeout
    \/ \E ok \in BOOLEAN : SaveToken(ok)
    \/ Shutdown

OAuthNext ==
    \/ ReturnSaved
    \/ \E listens \in BOOLEAN : StartServer(listens)
    \/ \E kind \in CallbackKinds : Callback(kind)
    \/ \E o \in ExchangeOutcomes : Exchange(o)
    \/ \E i \in 1 .. MaxRequests + 1 : ChannelSend(i)
    \/ Timeout
    \/ SelectToken
    \/ SelectError
    \/ SelectTimeout
    \/ \E ok \in BOOLEAN : SaveToken(ok)
    \/ Shutdown

\* the function's goroutine is scheduled while it can take a step, and the
\* context's timer fires
SpecOAuth ==
    OAuthInit /\ [][OAuthNext]_vars /\ WF_vars(AuthSteps) /\ WF_vars(Timeout)

----------------------------------------------------------------------------
(* Downloading the selected episodes: downloadEpisodeSelection *)

MaxSelected == 3   \* the multi-selection returns at most this many options

\* keys the selection may hand back: episodes of the list, the back button,
\* the cancel key, and keys that are no episode number
SelectionKeys ==
    { <<"1">>, <<"2">>, <<"0">>, <<"x">>, <<"-", "1">>, <<"b", "a", "c", "k">> }

RECURSIVE KeySeqs(_)
KeySeqs(n) ==
    IF n = 0 THEN {<<>>}
    ELSE LET S == KeySeqs(n - 1)
         IN  S \cup {Append(q, k) : q \in {r \in S : Len(r) = n - 1}, k \in SelectionKeys}

\* what DynamicMultiSelect returns: an error, or the selected options
Selections ==
    [fails : {TRUE}, keys : {<<>>}] \cup [fails : {FALSE}, keys : KeySeqs(MaxSelected)]

\* the options that are neither the back button nor the cancel key, in order
RECURSIVE FilterBack(_)
FilterBack(keys) ==
    IF keys = <<>> THEN <<>>
    ELSE IF Head(keys) # <<"b", "a", "c", "k">> /\ Head(keys) # <<"-", "1">>
         THEN <<Head(keys)>> \o FilterBack(Tail(keys))
         ELSE FilterBack(Tail(keys))

\* var epNum int; fmt.Sscanf(selected.Key, "%d", &epNum): the integer the
\* key starts with, or 0 when it starts with none
SscanfInt(key) == ScanlnInt(key)

\* how one episode ends when its number is valid: GetEpisodeURL fails or
\* returns no links, DownloadEpisode fails or succeeds
EpisodeOutcomes == {"link-error", "no-links", "download-error", "downloaded"}

\* what the iteration for one key comes to
IterationOutcome(key, o) == IF SscanfInt(key) <= 0 THEN "invalid" ELSE o

CountsSkippingNoLinks(counts, outcome) ==
    IF outcome = "downloaded" THEN [counts EXCEPT !.successCount = @ + 1]
    ELSE IF outcome = "no-links" THEN counts
    ELSE [counts EXCEPT !.failCount = @ + 1]

\* failCount++ on every branch that fails, successCount++ otherwise
CountsAfter(counts, outcome) ==
    IF outcome = "downloaded" THEN [counts EXCEPT !.successCount = @ + 1]
    ELSE [counts EXCEPT !.failCount = @ + 1]

DlInit ==
    dl \in [pc : {"start"}, totalEpisodes : {0, 2}, validEpisodes : {<<>>},
            i : {1}, counts : {[successCount |-> 0, failCount |-> 0]},
            lines : {<<>>}, summary : {<<>>}]

\* the function up to its loop: no episode count, a cancelled selection, an
\* empty selection or one of back buttons only return at once
ShowMenu(sel) ==
    /\ dl.pc = "start"
    /\ dl.totalEpisodes = 0 => sel = [fails |-> TRUE, keys |-> <<>>]
    /\ LET valid == FilterBack(sel.keys)
       IN  dl' = IF dl.totalEpisodes = 0 \/ sel.fails \/ valid = <<>>
                 THEN [dl EXCEPT !.pc = "returned"]
                 ELSE [dl EXCEPT !.pc = "loop",
                                 !.validEpisodes = valid,
                                 !.i = 1,
                                 !.counts = [successCount |-> 0, failCount |-> 0],
                                 !.lines = <<>>,
                                 !.summary = <<>>]
    /\ UNCHANGED <<firstVars, sr, th, un, sq, oa, df>>

\* one iteration of the loop over validEpisodes; every branch prints one
\* line about its episode
Iteration(o) ==
    /\ dl.pc = "loop"
    /\ dl.i <= Len(dl.validEpisodes)
    /\ LET key == dl.validEpisodes[dl.i]
           outcome == IterationOutcome(key, o)
       IN  /\ outcome = "invalid" => o = "link-error"
           /\ dl' = [dl EXCEPT !.i = @ + 1,
                               !.counts = CountsAfter(@, outcome),
                               !.lines = Append(@, [key |-> key, outcome |-> outcome])]
    /\ UNCHANGED <<firstVars, sr, th, un, sq, oa, df>>

\* the loop is over: the summary line is printed
Summary ==
    /\ dl.pc = "loop"
    /\ dl.i > Len(dl.validEpisodes)
    /\ dl' = [dl EXCEPT !.pc = "summary",
                        !.summary = <<dl.counts.successCount, dl.counts.failCount>>]
    /\ UNCHANGED <<firstVars, sr, th, un, sq, oa, df>>

\* the question whether to download more: the function returns, or calls
\* itself and starts over
DownloadMore(again) ==
    /\ dl.pc = "summary"
    /\ dl' = IF again
             THEN [dl EXCEPT !.pc = "start",
                             !.validEpisodes = <<>>,
                             !.i = 1,
                             !.counts = [successCount |-> 0, failCount |-> 0],
                             !.lines = <<>>,
                             !.summary = <<>>]
             ELSE [dl EXCEPT !.pc = "returned"]
    /\ UNCHANGED <<firstVars, sr, th, un, sq, oa, df>>

DownloadsInit ==
    /\ FirstIdle /\ DlInit
    /\ SrIdle /\ ThIdle /\ UnIdle /\ SqIdle /\ OaIdle /\ DfIdle

DownloadsNext ==
    \/ \E sel \in Selections : ShowMenu(sel)
    \/ \E o \in EpisodeOutcomes : Iteration(o)
    \/ Summary
    \/ \E again \in BOOLEAN : DownloadMore(again)

SpecDownloads == DownloadsInit /\ [][DownloadsNext]_vars

----------------------------------------------------------------------------
(* Downloading one episode to its file: DownloadEpisode, downloadFile,
   downloadWithFFmpeg *)

MaxEpisode == 2   \* episode numbers are 1 .. MaxEpisode

\* the download directory before the call: one path per episode number; a
\* path holds no file ("none") or the file of an earlier download ("old"),
\* and after the call what the download wrote ("empty", "partial", "new")
Directories == [1 .. MaxEpisode -> {"none", "old"}]

VideoURLs == {"https://h/v.mp4", "https://h/v.m3u8"}

\* strings.Contains(videoURL, ".m3u8") || strings.Contains(videoURL, "m3u8")
ContainsM3U8(url) == url = "https://h/v.m3u8"

EpisodeLinks ==
    {<<>>} \cup {<<u>> : u \in VideoURLs} \cup {<<u, v>> : u, v \in VideoURLs}

\* how downloadFile ends: os.Create fails, http.Get fails, the status is
\* not 200, io.Copy fails, or all of it succeeds
FileOutcomes == {"create-failed", "get-failed", "bad-status", "copy-failed", "ok"}

\* how downloadWithFFmpeg ends: no ffmpeg, no pipe, no start, ffmpeg exits
\* with an error having written nothing or a part, or it succeeds
FFmpegOutcomes ==
    {"no-ffmpeg", "pipe-failed", "start-failed", "ffmpeg-error",
     "ffmpeg-error-partial", "ok"}

DownloadOutcomes == FileOutcomes \cup FFmpegOutcomes

Written(file, err) == [file |-> file, err |-> err]

\* os.Create truncates the file, io.Copy fills it
downloadFile(content, o) ==
    CASE o = "create-failed" -> Written(content, Err(<<"open">>))
      [] o = "get-failed"    -> Written("empty", Err(<<"get">>))
      [] o = "bad-status"    -> Written("empty", Err(<<"bad status: ">>))
      [] o = "copy-failed"   -> Written("partial", Err(<<"copy">>))
      [] OTHER               -> Written("new", Nil)

\* ffmpeg -y writes the output path
downloadWithFFmpeg(content, o) ==
    CASE o = "no-ffmpeg"    -> Written(content, Err(<<"ffmpeg not found">>))
      [] o = "pipe-failed"  -> Written(content, Err(<<"failed to create stdout pipe: ">>))
      [] o = "start-failed" -> Written(content, Err(<<"failed to start ffmpeg: ">>))
      [] o = "ffmpeg-error" -> Written(content, Err(<<"ffmpeg error: ">>))
      [] o = "ffmpeg-error-partial" -> Written("partial", Err(<<"ffmpeg error: ">>))
      [] OTHER              -> Written("new", Nil)

\* DownloadEpisode on the directory dir: the directory afterwards and the
\* error returned
DownloadEpisode(epNumber, links, dir, removes, o) ==
    IF Len(links) = 0
    THEN [dir |-> dir, err |-> Err(<<"no download links available for this episode">>)]
    ELSE IF dir[epNumber] # "none" /\ ~removes
    THEN [dir |-> dir, err |-> Err(<<"failed to remove existing file: ">>)]
    ELSE LET w == IF ContainsM3U8(links[1])
                  THEN downloadWithFFmpeg("none", o)
                  ELSE downloadFile("none", o)
         IN  [dir |-> [dir EXCEPT ![epNumber] = w.file],
              err |-> IF w.err.nil THEN Nil
                      ELSE Err(<<"download failed: ">> \o w.err.msg)]

DfInit ==
    df \in [done : {FALSE}, epNumber : 1 .. MaxEpisode, links : EpisodeLinks,
            before : Directories, dir : Directories, err : {Nil}]
    /\ df.dir = df.before

\* one call of DownloadEpisode
Download(removes, o) ==
    /\ ~df.done
    /\ Len(df.links) > 0 =>
           o \in (IF ContainsM3U8(df.links[1]) THEN FFmpegOutcomes ELSE FileOutcomes)
    /\ LET r == DownloadEpisode(df.epNumber, df.links, df.dir, removes, o)
       IN  df' = [df EXCEPT !.done = TRUE, !.dir = r.dir, !.err = r.err]
    /\ UNCHANGED <<firstVars, sr, th, un, sq, oa, dl>>

FilesInit ==
    /\ FirstIdle /\ DfInit
    /\ SrIdle /\ ThIdle /\ UnIdle /\ SqIdle /\ OaIdle /\ DlIdle

FilesNext == \E removes \in BOOLEAN, o \in DownloadOutcomes : Download(removes, o)

SpecFiles == FilesInit /\ [][FilesNext]_vars

----------------------------------------------------------------------------
(* Properties of the coordinator *)

Backends == {"MAL", "AniList"}

CallsOf(b) == {i \in 1 .. Len(calls) : calls[i].backend = b}

LinesOf(b) == {i \in 1 .. Len(out) : out[i].src = b}

TokenFor(b) == IF b = "MAL" THEN args.malToken ELSE args.anilistToken

IDFor(b) == IF b = "MAL" THEN args.malID ELSE args.anilistID

StoreOf(b) == IF b = "MAL" THEN malStore ELSE anilistStore

Linked(b) == TokenFor(b) # "" /\ IDFor(b) > 0

Other(b) == IF b = "MAL" THEN "AniList" ELSE "MAL"

Untouched(b) ==
    /\ CallsOf(b) = {}
    /\ LinesOf(b) = {}
    /\ StoreOf(b) = [i \in 1 .. MaxID |-> BlankEntry]

MethodsOf(b) ==
    IF b = "MAL"
    THEN {"UpdateMALAnimeProgress", "UpdateMALAnimeStatus", "RateAnimeMAL"}
    ELSE {"UpdateAnimeProgress", "UpdateAnimeStatus", "RateAnime"}

MethodsFor(o) ==
    CASE o = "Progress" -> {"UpdateMALAnimeProgress", "UpdateAnimeProgress"}
      [] o = "Status"   -> {"UpdateMALAnimeStatus", "UpdateAnimeStatus"}
      [] o = "Rating"   -> {"RateAnimeMAL", "RateAnime"}
      [] OTHER          -> {}

\* the entry of a backend agrees with every field of a request
Holds(b, e, f) ==
    IF b = "MAL"
    THEN /\ "num_watched_episodes" \in DOMAIN f =>
                e.episodes = Atoi(f["num_watched_episodes"])
         /\ "status" \in DOMAIN f => e.status = f["status"]
         /\ "is_rewatching" \in DOMAIN f => e.rewatching
         /\ "finish_date" \in DOMAIN f => e.finish = f["finish_date"]
         /\ "score" \in DOMAIN f => e.score = Atoi(f["score"])
    ELSE /\ "progress" \in DOMAIN f => e.episodes = f["progress"]
         /\ "status" \in DOMAIN f => e.status = f["status"]
         /\ "score" \in DOMAIN f => e.score = f["score"]

\* the write of call c is in its backend's store
Applied(c) ==
    /\ c.requested
    /\ DOMAIN c.fields # {}
    /\ Holds(c.backend, StoreOf(c.backend)[c.id], c.fields)

\* C1: with dual tracking disabled, each *Dual function calls exactly one
\* adapter method, that of the primary backend GetTrackingService chooses,
\* with that backend's own token and id, leaves the other backend alone and
\* returns the adapter's result as it is, without the aggregation prefix.
C1_SingleBackendOnly ==
    ~config.DualTracking =>
        /\ Len(calls) <= 1
        /\ Untouched(Other(Primary))
        /\ pc = "done" =>
             /\ Len(calls) = 1
             /\ calls[1].backend = Primary
             /\ calls[1].method \in MethodsOf(Primary) \cap MethodsFor(op)
             /\ calls[1].token = TokenFor(Primary)
             /\ calls[1].id = IDFor(Primary)
             /\ calls[1].returned
             /\ result = calls[1].err
             /\ ~result.nil => result.msg[1] # "dual tracking errors: "

C1_Witness ==
    /\ pc = "done"
    /\ ~config.DualTracking
    /\ Primary = "MAL"
    /\ Linked("AniList")
    /\ args.malToken # args.anilistToken
    /\ args.malID # args.anilistID
    /\ ~result.nil

\* C2: with dual tracking enabled, a backend's adapter method is called
\* exactly once if its token is non-empty and its id is greater than 0, and
\* not at all otherwise, for each backend by itself and for each operation.
C2_CalledIffLinked ==
    config.DualTracking =>
        /\ \A b \in Backends : Cardinality(CallsOf(b)) <= 1
        /\ \A i \in 1 .. Len(calls) :
              /\ calls[i].method \in MethodsOf(calls[i].backend) \cap MethodsFor(op)
              /\ Linked(calls[i].backend)
        /\ pc = "done" =>
              \A b \in Backends :
                  Cardinality(CallsOf(b)) = IF Linked(b) THEN 1 ELSE 0

C2_Witness ==
    /\ pc = "done"
    /\ config.DualTracking
    /\ op = "Status"
    /\ args.malToken # "" /\ args.malID = 0
    /\ Linked("AniList")
    /\ Len(calls) = 1

\* C3: with dual tracking enabled and both backends linked, a failure of the
\* first call does not keep the second from being made, and when one call
\* succeeds and the other fails the function returns an error while the
\* write that succeeded is still in its backend.
C3_IndependentAttempts ==
    (pc = "done" /\ config.DualTracking /\ Linked("MAL") /\ Linked("AniList")) =>
        /\ Len(calls) = 2
        /\ calls[1].returned /\ calls[2].returned
        /\ (calls[1].failed # calls[2].failed) =>
              /\ ~result.nil
              /\ \A i \in 1 .. 2 : ~calls[i].failed => Applied(calls[i])

C3_Witness ==
    /\ pc = "done"
    /\ config.DualTracking
    /\ Len(calls) = 2
    /\ calls[1].failed /\ ~calls[2].failed
    /\ Applied(calls[2])
    /\ ~result.nil

\* the backend names an aggregated message lists, in the order it lists them
NamedIn(msg) == SelectSeq(msg, LAMBDA t : t \in Backends)

Secondary == Other(Primary)

BothFailed ==
    /\ pc = "done"
    /\ config.DualTracking
    /\ Len(calls) = 2
    /\ calls[1].failed /\ calls[2].failed

\* C4 as stated: when both backends fail, the aggregated message lists the
\* secondary backend's pair first and the primary backend's pair second,
\* joined by "; ", whichever backend is primary, in the order of evaluation.
C4_SecondaryThenPrimary ==
    BothFailed =>
        /\ NamedIn(result.msg) = <<Secondary, Primary>>
        /\ <<calls[1].backend, calls[2].backend>> = <<Secondary, Primary>>

\* C4 (amended): when both backends fail, the aggregated message lists the
\* MAL pair first and the AniList pair second, joined by "; ", whichever
\* backend is primary; this is the order in which the two were called.
C4_MALThenAniList ==
    BothFailed =>
        /\ result.msg =
              <<"dual tracking errors: ", "MAL", ": ">> \o calls[1].err.msg
                  \o <<"; ", "AniList", ": ">> \o calls[2].err.msg
        /\ <<calls[1].backend, calls[2].backend>> = <<"MAL", "AniList">>

C4_Witness == BothFailed /\ Primary = "MAL" /\ op = "Progress"

\* C5: with dual tracking enabled a skipped backend is no failure: one
\* backend skipped and the other called with success gives exactly one call
\* and no error; both skipped gives no call and no error.
C5_SkipIsNoFailure ==
    (pc = "done" /\ config.DualTracking) =>
        /\ \A b \in Backends :
              (~Linked(b) /\ Linked(Other(b))
                 /\ \A i \in CallsOf(Other(b)) : ~calls[i].failed) =>
                    Len(calls) = 1 /\ result.nil
        /\ (~Linked("MAL") /\ ~Linked("AniList")) => Len(calls) = 0 /\ result.nil

C5_Witness ==
    /\ pc = "done"
    /\ config.DualTracking
    /\ args.malToken = "" /\ args.malID > 0
    /\ Len(calls) = 1
    /\ ~calls[1].failed
    /\ result.nil

\* C6: with dual tracking enabled the function returns an error exactly when
\* a call it made failed; the error is the aggregate (also for one failure,
\* never the adapter's own error) and names exactly the backends that failed.
C6_AggregateNamesFailures ==
    (pc = "done" /\ config.DualTracking) =>
        /\ ~result.nil <=> \E i \in 1 .. Len(calls) : calls[i].failed
        /\ ~result.nil =>
              /\ result.msg[1] = "dual tracking errors: "
              /\ \A i \in 1 .. Len(calls) : result # calls[i].err
              /\ \A b \in Backends :
                    (\E j \in 1 .. Len(result.msg) : result.msg[j] = b)
                        <=> (\E i \in CallsOf(b) : calls[i].failed)

C6_Witness ==
    /\ pc = "done"
    /\ config.DualTracking
    /\ Len(calls) = 2
    /\ ~calls[1].failed /\ calls[2].failed
    /\ NamedIn(result.msg) = <<"AniList">>

C7_State ==
    /\ Len(calls) <= 2
    /\ \A i \in 1 .. Len(calls) - 1 : calls[i].returned
    /\ pc = "done" =>
          /\ \A i \in 1 .. Len(calls) : calls[i].returned
          /\ config.DualTracking => \A b \in Backends : Linked(b) => CallsOf(b) # {}

C7_Step ==
    /\ result' # result => pc # "done" /\ pc' = "done"
    /\ Len(calls') > Len(calls) => \A i \in 1 .. Len(calls) : calls[i].returned

\* C7: a dual-write operation makes at most two backend calls, one after
\* the other: a call starts only when the calls before it have returned,
\* and the result is produced once, after every linked backend was tried.
C7_Sequential == [](C7_State) /\ [][C7_Step]_vars

C7_Witness ==
    /\ pc = "anilistWait"
    /\ Len(calls) = 2
    /\ calls[1].returned /\ calls[1].failed
    /\ ~calls[2].returned

\* C8: in a dual-write operation each successful backend write produces
\* exactly one confirmation line of that backend, and a failed or skipped
\* backend none, for Progress, Status and Rating.
C8_OneLinePerSuccess ==
    config.DualTracking =>
        \A b \in Backends :
            Cardinality(LinesOf(b)) =
                Cardinality({i \in CallsOf(b) : calls[i].returned /\ ~calls[i].failed})

----------------------------------------------------------------------------
(* Properties of the selector and of the translator *)

UpperOf(c) ==
    CASE c = "m" -> "M" [] c = "a" -> "A" [] c = "l" -> "L" [] c = "y" -> "Y"
      [] c = "n" -> "N" [] c = "i" -> "I" [] c = "e" -> "E" [] c = "s" -> "S"
      [] c = "t" -> "T" [] OTHER -> c

\* s is the lower-case word w written in any letter case
SpellsIgnoringCase(s, w) ==
    /\ Len(s) = Len(w)
    /\ \A i \in 1 .. Len(w) : s[i] = w[i] \/ s[i] = UpperOf(w[i])

\* C9: GetTrackingService returns the MAL backend exactly when the
\* configured name, lower-cased, is "mal" or "myanimelist" ("MAL" resolves
\* to MAL) and the AniList backend for every other name, the empty one
\* included; the answer depends on the name alone, and the call does no I/O
\* and leaves the configuration as it was.
C9_SelectorByName ==
    selResult # "none" =>
        /\ selResult = "mal" <=>
              \/ SpellsIgnoringCase(selConfig.TrackingService, sMal)
              \/ SpellsIgnoringCase(selConfig.TrackingService, sMyanimelist)
        /\ selResult # "mal" => selResult = "anilist"
        /\ selConfig.TrackingService = sMAL => selResult = "mal"
        /\ selConfig.TrackingService = sEmpty => selResult = "anilist"
        /\ selConfigAfter = selConfig
        /\ calls = <<>> /\ out = <<>> /\ cvLookups = <<>>

C9_Witness ==
    /\ selResult = "mal"
    /\ selConfig.TrackingService = sMyAnimeList
    /\ selConfig.DualTracking

\* C10: for every id and every backend name b, ConvertIDIfNeeded(id, b, b)
\* returns id itself with no error and performs no network lookup.
C10_IdentityConversion ==
    (cvResult.done /\ cvArgs.fromService = cvArgs.toService) =>
        /\ cvResult.id = cvArgs.id
        /\ cvResult.err.nil
        /\ ~cvResult.panicked
        /\ cvLookups = <<>>

C10_Witness ==
    /\ cvResult.done
    /\ cvArgs.fromService = sKitsu
    /\ cvArgs.toService = sKitsu
    /\ cvArgs.id = -1
    /\ cvResult.id = -1

\* a backend name that is recognised once it is lower-cased
Recognised(name) == ToLower(name) \in {sMal, sMyanimelist, sAnilist}

BackendNamed(name) == IF ToLower(name) = sAnilist THEN "AniList" ELSE "MAL"

IsUnsupported(r) ==
    ~r.err.nil /\ r.err.msg[1] = "unsupported service conversion: "

\* C11: ConvertIDIfNeeded fails with the unsupported-conversion error when
\* one of the two (different) names is unrecognised after lower-casing, and
\* a pair of recognised names of the two backends, written in any letter
\* case, is translated by a lookup instead of being rejected.
C11_NamesIgnoreCase ==
    (cvResult.done /\ cvArgs.fromService # cvArgs.toService) =>
        /\ (~Recognised(cvArgs.fromService) \/ ~Recognised(cvArgs.toService)) =>
              IsUnsupported(cvResult)
        /\ (/\ Recognised(cvArgs.fromService)
            /\ Recognised(cvArgs.toService)
            /\ BackendNamed(cvArgs.fromService) # BackendNamed(cvArgs.toService)) =>
              ~IsUnsupported(cvResult) /\ Len(cvLookups) = 1

----------------------------------------------------------------------------
(* Properties of the list lookup *)

\* the text is a decimal integer: an optional sign, then digits only
IsIntegerText(t) ==
    \E k \in 0 .. 1 :
        /\ Len(t) > k
        /\ k = 1 => t[1] \in {"+", "-"}
        /\ \A i \in k + 1 .. Len(t) : t[i] \in Digits

AllEntries(list) ==
    UNION {{list[c][i] : i \in 1 .. Len(list[c])} : c \in DOMAIN list}

IsInvalidID(r) == ~r.err.nil /\ r.err.msg[1] = "invalid ID format: "

IsNotFound(r) ==
    ~r.err.nil /\ r.err.msg[1] = "anime with ID " /\ r.err.msg[Len(r.err.msg)] = " not found"

\* C12: FindAnimeByIDUnified returns the invalid-ID error, without looking
\* at the list, exactly when the text is no integer, and the not-found
\* error exactly when the text is an integer and no entry of the six
\* categories has that id (so for every integer on the empty list).
C12_InvalidOrNotFound ==
    fd.done =>
        /\ IsInvalidID(fd.res) <=> ~IsIntegerText(fd.idStr)
        /\ IsInvalidID(fd.res) => fd.res.compared = 0 /\ fd.res.isNil
        /\ IsNotFound(fd.res) <=>
              /\ IsIntegerText(fd.idStr)
              /\ \A e \in AllEntries(fd.list) : e.id # Atoi(fd.idStr)
        /\ fd.res.err.nil <=> ~IsInvalidID(fd.res) /\ ~IsNotFound(fd.res)
        /\ (AllEntries(fd.list) = {} /\ IsIntegerText(fd.idStr)) => IsNotFound(fd.res)

C12_Witness ==
    /\ fd.done
    /\ fd.idStr = <<"1", "a">>
    /\ AllEntries(fd.list) # {}
    /\ IsInvalidID(fd.res)

\* the position of category c in the fixed order
Rank(c) == CHOOSE k \in 1 .. 6 : CategoryNames[k] = c

\* C13: FindAnimeByIDUnified returns the first matching entry in the order
\* Watching, Completed, Paused, Dropped, Planning, Rewatching, and the
\* earliest one within a category: an id that is in Watching and in another
\* category is answered with the Watching entry.
C13_FirstInFixedOrder ==
    (fd.done /\ fd.res.err.nil) =>
        \E c \in DOMAIN fd.list : \E i \in 1 .. Len(fd.list[c]) :
            /\ fd.res.entry = fd.list[c][i]
            /\ fd.res.entry.id = Atoi(fd.idStr)
            /\ \A j \in 1 .. i - 1 : fd.list[c][j].id # fd.res.entry.id
            /\ \A d \in DOMAIN fd.list :
                  Rank(d) < Rank(c) =>
                      \A j \in 1 .. Len(fd.list[d]) : fd.list[d][j].id # fd.res.entry.id

C13_Witness ==
    /\ fd.done
    /\ fd.res.err.nil
    /\ Len(fd.list.Watching) = 1
    /\ Len(fd.list.Dropped) = 1
    /\ fd.list.Watching[1].id = fd.list.Dropped[1].id
    /\ fd.list.Watching[1].tag > fd.list.Dropped[1].tag
    /\ fd.res.entry = fd.list.Watching[1]

----------------------------------------------------------------------------
(* Properties of the list conversion and of the status vocabulary *)

UnknownAt(i) == lc.malEntries[i].status \notin KnownMALStatuses

\* C14 as stated: an entry with an unknown status string is converted to
\* CURRENT, whatever else it carries.
C14_UnknownIsWatching ==
    lc.done =>
        /\ Len(lc.out) = Len(lc.malEntries)
        /\ \A i \in 1 .. Len(lc.malEntries) :
              UnknownAt(i) => lc.out[i].status = "CURRENT"

\* C14: an entry whose status string is none of the five known ones (the
\* empty string included) is converted to CURRENT unless its is_rewatching
\* flag is set, which makes it REPEATING; the whole list is still converted,
\* every other entry as if the unknown one were not there.
C14_UnknownIsWatchingUnlessRewatching ==
    lc.done =>
        /\ Len(lc.out) = Len(lc.malEntries)
        /\ \A i \in 1 .. Len(lc.malEntries) :
              /\ UnknownAt(i) =>
                    lc.out[i].status =
                        IF lc.malEntries[i].rewatching THEN "REPEATING" ELSE "CURRENT"
              /\ lc.out[i] = convertMALToAnilistFormat(<<lc.malEntries[i]>>)[1]

C14_Witness ==
    /\ lc.done
    /\ Len(lc.malEntries) = 2
    /\ lc.malEntries[1].status = ""
    /\ ~lc.malEntries[1].rewatching
    /\ lc.malEntries[2].status = "dropped"
    /\ lc.out[1].status = "CURRENT"
    /\ lc.out[2].status = "DROPPED"

\* C15: a canonical status sent as UpdateMALAnimeStatus sends it (status
\* string and is_rewatching flag) and read back as convertMALToAnilistFormat
\* reads it is the same status; REPEATING is sent as "watching" with the
\* flag and read back as REPEATING.
C15_StatusRoundTrip ==
    (su.done /\ su.status \in CanonicalStatuses) =>
        /\ su.back = su.status
        /\ su.status = "REPEATING" =>
              /\ su.out.fields["status"] = "watching"
              /\ su.out.fields["is_rewatching"] = "true"

C15_Witness ==
    /\ su.done
    /\ su.status = "REPEATING"
    /\ SentEntry(su.out.fields).status = "watching"
    /\ SentEntry(su.out.fields).rewatching
    /\ su.back = "REPEATING"

CategoryOfMAL(s) ==
    CASE s = "completed"     -> "COMPLETED"
      [] s = "on_hold"       -> "PAUSED"
      [] s = "dropped"       -> "DROPPED"
      [] s = "plan_to_watch" -> "PLANNING"

OneEntryEach ==
    /\ Len(lc.out) = Len(lc.malEntries)
    /\ \A i \in 1 .. Len(lc.out) :
          /\ lc.out[i].id = lc.malEntries[i].id
          /\ lc.out[i].status \in CanonicalStatuses

\* the statuses under which id appears in the converted list
CategoriesHolding(id) ==
    {lc.out[i].status : i \in {j \in 1 .. Len(lc.out) : lc.out[j].id = id}}

OncePlacedOnce ==
    \A id \in FindIDs :
        Cardinality({i \in 1 .. Len(lc.malEntries) : lc.malEntries[i].id = id}) = 1
            => Cardinality(CategoriesHolding(id)) = 1

\* C16 as stated: an entry reported as completed, on_hold, dropped or
\* plan_to_watch gets the corresponding status whatever its other fields.
C16_PlacedByStatusField ==
    lc.done =>
        /\ OneEntryEach
        /\ OncePlacedOnce
        /\ \A i \in 1 .. Len(lc.malEntries) :
              lc.malEntries[i].status \in KnownMALStatuses \ {"watching"}
                  => lc.out[i].status = CategoryOfMAL(lc.malEntries[i].status)

\* C16: every backend entry yields exactly one converted entry with exactly
\* one of the six statuses, determined by the entry's status field and its
\* is_rewatching flag: completed, on_hold, dropped and plan_to_watch give
\* the corresponding status when the flag is not set, and any entry with
\* the flag set is REPEATING; an id returned once is in one category only.
C16_PlacedByStatusAndFlag ==
    lc.done =>
        /\ OneEntryEach
        /\ OncePlacedOnce
        /\ \A i \in 1 .. Len(lc.malEntries) :
              /\ lc.malEntries[i].rewatching => lc.out[i].status = "REPEATING"
              /\ (/\ ~lc.malEntries[i].rewatching
                  /\ lc.malEntries[i].status \in KnownMALStatuses \ {"watching"})
                    => lc.out[i].status = CategoryOfMAL(lc.malEntries[i].status)
              /\ \A j \in 1 .. Len(lc.malEntries) :
                    (/\ lc.malEntries[i].status = lc.malEntries[j].status
                     /\ lc.malEntries[i].rewatching = lc.malEntries[j].rewatching)
                        => lc.out[i].status = lc.out[j].status

C16_Witness ==
    /\ lc.done
    /\ Len(lc.malEntries) = 2
    /\ lc.malEntries[1].id # lc.malEntries[2].id
    /\ lc.malEntries[1].status = "completed"
    /\ lc.malEntries[2].status = "completed"
    /\ lc.malEntries[1].rewatching
    /\ ~lc.malEntries[2].rewatching
    /\ lc.out[1].status = "REPEATING"
    /\ lc.out[2].status = "COMPLETED"

\* C17: UpdateMALAnimeStatus sends finish_date, with the date of the call,
\* exactly when the requested status is COMPLETED, and sends is_rewatching
\* exactly when the requested status is REPEATING.
C17_FinishDateIffCompleted ==
    su.done =>
        /\ su.out.requested
        /\ "finish_date" \in DOMAIN su.out.fields <=> su.status = "COMPLETED"
        /\ su.status = "COMPLETED" => su.out.fields["finish_date"] = su.today
        /\ "is_rewatching" \in DOMAIN su.out.fields <=> su.status = "REPEATING"
        /\ su.status = "REPEATING" => su.out.fields["is_rewatching"] = "true"

C17_Witness ==
    /\ su.done
    /\ su.status = "COMPLETED"
    /\ su.today = "2024-02-29"
    /\ su.out.err.nil
    /\ su.before.finish = ""
    /\ su.after.finish = "2024-02-29"

----------------------------------------------------------------------------
(* Properties of the MyAnimeList rating *)

\* the call got as far as an integer score: a config, and input that was read
ScoreRead == ~rt.gcfg.isNil /\ ~(rt.gcfg.RofiSelection /\ rt.input.fails)

\* C18: RateAnimeMAL rejects every integer score outside 0..10 with an
\* error and without a request, and for a score inside 0..10 it sends
\* exactly that score.
C18_ScoreRange ==
    (rt.done /\ ScoreRead /\ ~rt.input.fails) =>
        /\ (rt.entered < MinScore \/ rt.entered > MaxScore) =>
              ~rt.out.err.nil /\ ~rt.out.requested /\ rt.after = rt.before
        /\ (rt.entered >= MinScore /\ rt.entered <= MaxScore) =>
              /\ rt.out.requested
              /\ rt.out.fields["score"] = Itoa(rt.entered)
              /\ DOMAIN rt.out.fields = {"score"}
              /\ rt.out.err.nil => rt.after.score = rt.entered

C18_Witness ==
    /\ rt.done
    /\ ScoreRead
    /\ rt.entered = MaxScore
    /\ rt.input.text = <<"1", "0">>
    /\ rt.out.err.nil
    /\ rt.after.score = MaxScore
    /\ rt.before.score # MaxScore

----------------------------------------------------------------------------
(* Properties of repeated progress updates *)

\* the call that returned was made to both backends and both calls succeeded
BothSucceeded ==
    /\ pc = "done"
    /\ op = "Progress"
    /\ MALEligible(args) /\ AniListEligible(args)
    /\ result.nil

\* C19: a dual progress update with value n, both backends eligible and
\* both calls successful, leaves both backends with watched-episode count
\* n whatever they held before, and so does the same update made again.
C19_AbsoluteCount ==
    BothSucceeded =>
        /\ malStore[args.malID].episodes = args.progress
        /\ anilistStore[args.anilistID].episodes = args.progress

C19_Witness ==
    /\ BothSucceeded
    /\ Len(calls) = 2 * MaxRuns
    /\ args.progress = MaxProgress
    /\ malStore[args.malID] = [EntryWatched(0) EXCEPT !.episodes = MaxProgress]
    /\ anilistStore[args.anilistID] = [EntryWatched(0) EXCEPT !.episodes = MaxProgress]

----------------------------------------------------------------------------
(* Properties of the paginated list fetch *)

\* the entries of the pages of the chain, in page order
RECURSIVE Concatenated(_)
Concatenated(chain) ==
    IF chain = <<>> THEN <<>> ELSE chain[1] \o Concatenated(Tail(chain))

\* what is returned is the whole list or an error and no list
CompleteOrError ==
    pg.done =>
        \/ /\ pg.err.nil
           /\ ~pg.result.isNil
           /\ pg.requests = [i \in 1 .. Len(pg.chain) |-> i]
           /\ pg.result.entries = convertMALToAnilistFormat(Concatenated(pg.chain))
        \/ /\ ~pg.err.nil
           /\ pg.result.isNil
           /\ pg.result.entries = <<>>

\* C20: GetMALUserAnimeList requests page after page until a page has no
\* next link and returns the entries of all pages in page order; on every
\* finite chain it returns, and what it returns is the complete list or,
\* when a page failed, an error and no list.
C20_AllPagesOrError == []CompleteOrError /\ <>pg.done

C20_Witness ==
    /\ pg.done
    /\ pg.err.nil
    /\ Len(pg.chain) = MaxPages
    /\ \A i \in 1 .. Len(pg.chain) : Len(pg.chain[i]) > 0
    /\ pg.chain[1] # pg.chain[MaxPages]
    /\ Len(pg.result.entries) > MaxPages

----------------------------------------------------------------------------
(* Properties of the search *)

\* the place in the backend's answer of the anime with this Key
BackendIndex(key) == Atoi(key)

DistanceAt(i) == levenshtein(sr.res.results[i].Label, sr.query)

\* C21: SearchAnimeMAL returns all the backend's results in ascending order
\* of edit distance between title and query, and results of equal distance
\* in the order in which the backend returned them.
C21_AscendingAndStable ==
    (sr.done /\ sr.res.err.nil) =>
        /\ Len(sr.res.results) = Len(sr.data)
        /\ {BackendIndex(sr.res.results[i].Key) : i \in 1 .. Len(sr.res.results)}
              = 1 .. Len(sr.data)
        /\ \A i \in 1 .. Len(sr.res.results) :
              sr.res.results[i].Label = sr.data[BackendIndex(sr.res.results[i].Key)]
        /\ \A i, j \in 1 .. Len(sr.res.results) :
              i < j =>
                  /\ DistanceAt(i) <= DistanceAt(j)
                  /\ DistanceAt(i) = DistanceAt(j) =>
                        BackendIndex(sr.res.results[i].Key)
                            < BackendIndex(sr.res.results[j].Key)

----------------------------------------------------------------------------
(* Properties of concurrent invocations *)

\* C22: two dual-write invocations for different anime on two threads share
\* no mutable state: under every interleaving each makes the backend calls
\* and returns the result it makes and returns when it runs alone with the
\* same backend answers.
C22_AsIfAlone ==
    th.done =>
        \A t \in Threads :
            /\ th.inv[t].calls = RunAlone(th.inv0[t], th.stdin0).calls
            /\ th.inv[t].result = RunAlone(th.inv0[t], th.stdin0).result

----------------------------------------------------------------------------
(* Properties of the unified progress update *)

UnPrimary == IF GetTrackingService(un.config) = "mal" THEN "MAL" ELSE "AniList"

UnCalled(b) == \E i \in 1 .. Len(un.calls) : un.calls[i].backend = b

\* C23: UpdateAnimeProgressUnified updates the progress on the configured
\* tracking service and, when DualTracking is enabled, on both MyAnimeList
\* and AniList.
C23_UnifiedUpdatesBoth ==
    un.done =>
        /\ UnCalled(UnPrimary)
        /\ un.config.DualTracking => UnCalled("MAL") /\ UnCalled("AniList")

----------------------------------------------------------------------------
(* Properties of status updates made one after the other *)

\* C24: after any sequence of successful UpdateMALAnimeStatus calls on one
\* anime, the list fetched next shows the anime with the status the last
\* call asked for; REPEATING followed by another status reads back as the
\* other status.
C24_LastStatusWins ==
    (sq.fetched /\ sq.calls > 0) => sq.read = sq.last

----------------------------------------------------------------------------
(* Properties of the dual rating *)

\* C25: with dual tracking enabled and both backends eligible, a
\* RateAnimeDual call that succeeds on both backends leaves the same score
\* on both, the score having been asked for once.
C25_OneScoreForBoth ==
    (/\ pc = "done"
     /\ op = "Rating"
     /\ config.DualTracking
     /\ MALEligible(args) /\ AniListEligible(args)
     /\ result.nil) =>
        malStore[args.malID].score = anilistStore[args.anilistID].score

----------------------------------------------------------------------------
(* Properties of the rating input *)

\* the input source supplied a text that is an integer of 0..10
SuppliedScore ==
    /\ ~rt.input.fails
    /\ IsIntegerText(rt.input.text)
    /\ Atoi(rt.input.text) >= MinScore
    /\ Atoi(rt.input.text) <= MaxScore

\* C26: RateAnimeMAL sends a rating request only if the input source
\* supplied a text that is an integer of 0..10; when the text is no integer,
\* on the console as with Rofi, it returns an error and sends no request.
C26_OnlyEnteredScores ==
    rt.done =>
        /\ rt.out.requested => SuppliedScore
        /\ (~rt.gcfg.isNil /\ ~rt.input.fails /\ ~IsIntegerText(rt.input.text)) =>
              ~rt.out.err.nil /\ ~rt.out.requested

----------------------------------------------------------------------------
(* Properties of the lookup by MAL id *)

FromMALToAniList ==
    /\ cvArgs.fromService \in {sMal, sMyanimelist}
    /\ cvArgs.toService = sAnilist

\* C27: for every answer of the GraphQL backend ConvertMALIDToAnilist
\* returns an AniList id or an error and does not panic, so ConvertIDIfNeeded
\* from MAL to AniList always returns.
C27_LookupNeverPanics ==
    (cvResult.done /\ FromMALToAniList) =>
        /\ ~cvResult.panicked
        /\ Len(cvResult.lookups) = 1
        /\ cvResult.err.nil => cvResult.id \in LookupIDs

----------------------------------------------------------------------------
(* Properties of the OAuth flow *)

\* the call returned one of the three outcomes, and a token only when it was
\* the token case that was taken and the token is in the token file
OneOutcome ==
    oa.pc = "returned" =>
        \/ /\ oa.taken = "token"
           /\ ~oa.saveFailed
           /\ oa.ret.err.nil
           /\ oa.ret.token \in {"token-a", "token-b"}
           /\ oa.file = oa.ret.token
        \/ /\ oa.taken = "token"
           /\ oa.saveFailed
           /\ oa.ret = AuthReturn("", Err(<<"failed to save token: ", "io">>))
        \/ /\ oa.taken = "error"
           /\ oa.ret.token = ""
           /\ ~oa.ret.err.nil
           /\ oa.ret.err.msg[1] = "authentication failed: "
        \/ /\ oa.taken = "timeout"
           /\ oa.ret.token = ""
           /\ oa.ret.err = Err(<<"authentication timeout after 5 minutes">>)

\* C28: with no valid saved token, every call of authenticateWithBrowserMAL
\* returns in the end, whatever the callback requests, the exchange
\* goroutines and the timeout do, and returns one outcome: the access token
\* once it is saved, an authentication error, or the timeout error; no token
\* after an error was taken, no success when the save failed.
C28_OneOutcomeInTheEnd ==
    /\ [](oa.pc # "start" /\ oa.taken # "none" => OneOutcome)
    /\ [](oa.pc = "select" => <>(oa.pc = "returned"))

C28_Witness ==
    /\ oa.pc = "returned"
    /\ oa.taken = "token"
    /\ oa.ret.token = "token-b"
    /\ oa.file = "token-b"
    /\ oa.requests = MaxRequests
    /\ oa.errCh # <<>>

----------------------------------------------------------------------------
(* Properties of the episode downloads *)

\* C29: a failing episode does not stop the loop: at the summary every
\* episode of validEpisodes has had its iteration, in selection order and
\* once, and successCount + failCount is the number of those episodes.
C29_EveryEpisodeCounted ==
    dl.pc = "summary" =>
        /\ Len(dl.lines) = Len(dl.validEpisodes)
        /\ \A k \in 1 .. Len(dl.lines) : dl.lines[k].key = dl.validEpisodes[k]
        /\ dl.summary[1] + dl.summary[2] = Len(dl.validEpisodes)
        /\ dl.summary[1] =
               Cardinality({k \in 1 .. Len(dl.lines) : dl.lines[k].outcome = "downloaded"})

C29_Witness ==
    /\ dl.pc = "summary"
    /\ Len(dl.validEpisodes) = MaxSelected
    /\ dl.lines[1].outcome = "no-links"
    /\ dl.lines[2].outcome = "invalid"
    /\ dl.lines[3].outcome = "downloaded"
    /\ dl.summary = <<1, 2>>

----------------------------------------------------------------------------
(* Properties of the download of one episode *)

\* C30: when DownloadEpisode returns an error, a file that was at the
\* destination path before the call is still there with its content.
C30_FailureKeepsEarlierFile ==
    df.done /\ ~df.err.nil /\ df.before[df.epNumber] # "none" =>
        df.dir[df.epNumber] = df.before[df.epNumber]

====
